---- MODULE Spec2Model ----
(***************************************************************************)
(* Model of the missmap federation graph: the graph build of               *)
(* FederationGraph.svelte (initGraph), its life cycle (mount, debounced    *)
(* rebuild, teardown), the viewpoint connectivity prober, the node         *)
(* selection handlers, and the page's automatic federation fetches.        *)
(*                                                                         *)
(* Host names and element ids are sequences of characters, so that the     *)
(* string comparison (<) and the template strings of the source are        *)
(* computed, not assumed.  Floating point quantities are kept in fixed     *)
(* point: raw activity in tenths, weights in hundredths, opacity in        *)
(* thousandths.                                                            *)
(***************************************************************************)
EXTENDS Integers, Sequences, FiniteSets, TLC

\* ------------------------------------------------------------------------
\* Bounds of the model
\* ------------------------------------------------------------------------
NumHosts == 4
MaxObs == 2
MaxVpEdits == 1
MaxFetches == 4
MaxTaps == 4
MaxProbes == 2
MaxPairObs == 3
MaxFocus == 2
MaxTime == 5000
TimeStep == 1000
MaxDrags == 2

\* ------------------------------------------------------------------------
\* Strings
\* ------------------------------------------------------------------------
\* UTF-16 code units of the characters used in the model's host names.
CharCode(c) ==
    CASE c = "-" -> 45
      [] c = "." -> 46
      [] c = ">" -> 62
      [] c = "_" -> 95
      [] c = "a" -> 97
      [] c = "b" -> 98
      [] c = "c" -> 99
      [] c = "d" -> 100
      [] c = "|" -> 124

RECURSIVE StrLt(_, _)
\* s < t on JavaScript strings: lexicographic on code units.
StrLt(s, t) ==
    IF t = <<>> THEN FALSE
    ELSE IF s = <<>> THEN TRUE
    ELSE IF CharCode(Head(s)) < CharCode(Head(t)) THEN TRUE
    ELSE IF CharCode(Head(s)) > CharCode(Head(t)) THEN FALSE
    ELSE StrLt(Tail(s), Tail(t))

\* Host names the model draws from: "a", "a-b", "b", "b-b", "c", "d".
HostUniverse ==
    << <<"a">>, <<"a", "-", "b">>, <<"b">>, <<"b", "-", "b">>, <<"c">>, <<"d">> >>

Hosts == {HostUniverse[i] : i \in 1..NumHosts}

NoHost == <<>>

\* ------------------------------------------------------------------------
\* Sequence helpers
\* ------------------------------------------------------------------------
Range(s) == {s[i] : i \in 1..Len(s)}

Contains(s, x) == \E i \in 1..Len(s) : s[i] = x

AddUnique(s, x) == IF Contains(s, x) THEN s ELSE Append(s, x)

RECURSIVE AddAllUnique(_, _)
AddAllUnique(s, xs) ==
    IF xs = <<>> THEN s ELSE AddAllUnique(AddUnique(s, Head(xs)), Tail(xs))

SetMax(S) == CHOOSE x \in S : \A y \in S : y <= x
SetMin(S) == CHOOSE x \in S : \A y \in S : x <= y

BoundedSeq(S, n) == UNION {[1..k -> S] : k \in 0..n}

RECURSIVE SqrtSearch(_, _, _)
\* Largest r in lo..hi with r*r <= n (lo*lo <= n is given).
SqrtSearch(n, lo, hi) ==
    IF lo >= hi THEN lo
    ELSE LET mid == (lo + hi + 1) \div 2
         IN IF mid * mid <= n THEN SqrtSearch(n, mid, hi)
                              ELSE SqrtSearch(n, lo, mid - 1)

\* floor(sqrt(n)) for 0 <= n < 2^31.
ISqrt(n) == SqrtSearch(n, 0, 46340)

\* ------------------------------------------------------------------------
\* Graph build: the synchronous part of initGraph after the engine import
\* ------------------------------------------------------------------------
\* A Federation observation; counts are non-negative integers.
Federation(s, t, u, n, b, sus) ==
    [sourceHost |-> s, targetHost |-> t, usersCount |-> u, notesCount |-> n,
     isBlocked |-> b, isSuspended |-> sus]

\* const serverHosts = new Set(servers.map((s) => s.host))
ServerHosts(srv) == {srv[i].host : i \in 1..Len(srv)}

\* for (const fed of federations) viewpointHosts.add(fed.sourceHost)
ViewpointHosts(feds) == {feds[i].sourceHost : i \in 1..Len(feds)}

IsNormalFederation(f) == ~f.isBlocked /\ ~f.isSuspended

IsBlockedFederation(f) == f.isBlocked \/ f.isSuspended

NormalFederations(feds) == SelectSeq(feds, IsNormalFederation)

BlockedFederations(feds) == SelectSeq(feds, IsBlockedFederation)

\* serverHosts.has(h) || viewpointHosts.has(h)
HostAllowed(h, srv, feds) == h \in ServerHosts(srv) \/ h \in ViewpointHosts(feds)

\* fed.sourceHost < fed.targetHost ? [source, target] : [target, source]
SortedPair(s, t) == IF StrLt(s, t) THEN <<s, t>> ELSE <<t, s>>

\* usersCount + notesCount / 10, in tenths.
Activity(f) == 10 * f.usersCount + f.notesCount

RECURSIVE RawActivities(_, _, _)
\* The rawActivities array built from the normal federations nf.
RawActivities(nf, srv, feds) ==
    IF nf = <<>> THEN <<>>
    ELSE LET fed == Head(nf)
             rest == RawActivities(Tail(nf), srv, feds)
             pair == SortedPair(fed.sourceHost, fed.targetHost)
         IN IF ~HostAllowed(fed.sourceHost, srv, feds)
               \/ ~HostAllowed(fed.targetHost, srv, feds)
            THEN rest
            ELSE <<[source |-> pair[1], target |-> pair[2],
                    activity |-> Activity(fed)]>> \o rest

\* The maximum taken without the extra argument 1.
MaxActivityOfItemsOnly(raw) == SetMax({raw[i].activity : i \in 1..Len(raw)} \cup {0})

\* Math.max(...activities, 1), in tenths.
MaxActivity(raw) == SetMax({raw[i].activity : i \in 1..Len(raw)} \cup {10})

\* The minimum taken without the extra argument 0.
MinActivityOfItemsOnly(raw) ==
    IF raw = <<>> THEN 0 ELSE SetMin({raw[i].activity : i \in 1..Len(raw)})

\* Math.min(...activities, 0)
MinActivity(raw) == SetMin({raw[i].activity : i \in 1..Len(raw)} \cup {0})

\* maxActivity - minActivity || 1
ActivityRange(raw) ==
    IF MaxActivity(raw) - MinActivity(raw) = 0 THEN 10
    ELSE MaxActivity(raw) - MinActivity(raw)

\* The weight with the square root scaled by 30 instead of 29.
EdgeWeightScaledBy30(activity, minActivity, activityRange) ==
    100 + ISqrt((3000 * 3000 * (activity - minActivity)) \div activityRange)

\* 1 + Math.sqrt((activity - minActivity) / activityRange) * 29, in hundredths
\* (rounded down).
EdgeWeight(activity, minActivity, activityRange) ==
    100 + ISqrt((2900 * 2900 * (activity - minActivity)) \div activityRange)

\* `${source}-${target}`
ActivityKey(source, target) == source \o <<"-">> \o target

\* Index of the entry of map with the given key, 0 when there is none.
MapIndex(map, key) ==
    IF \E i \in 1..Len(map) : map[i].key = key
    THEN CHOOSE i \in 1..Len(map) : map[i].key = key
    ELSE 0

\* One iteration of the loop over rawActivities that fills edgeMap.
EdgeMapPut(map, item, minActivity, activityRange) ==
    LET key == ActivityKey(item.source, item.target)
        idx == MapIndex(map, key)
        weight == EdgeWeight(item.activity, minActivity, activityRange)
    IN IF idx # 0
       THEN IF item.activity > map[idx].rawActivity
            THEN [map EXCEPT ![idx].weight = weight,
                             ![idx].rawActivity = item.activity]
            ELSE map
       ELSE Append(map, [key |-> key, source |-> item.source,
                         target |-> item.target, weight |-> weight,
                         rawActivity |-> item.activity])

RECURSIVE EdgeMapFold(_, _, _, _)
EdgeMapFold(map, items, minActivity, activityRange) ==
    IF items = <<>> THEN map
    ELSE EdgeMapFold(EdgeMapPut(map, Head(items), minActivity, activityRange),
                     Tail(items), minActivity, activityRange)

\* edgeMap after the loop, as the list of its values in insertion order.
EdgeMap(srv, feds) ==
    LET raw == RawActivities(NormalFederations(feds), srv, feds)
    IN EdgeMapFold(<<>>, raw, MinActivity(raw), ActivityRange(raw))

\* Math.min(0.3 + (weight / 30) * 0.6, 0.9), in thousandths.
EdgeOpacity(weight) ==
    LET o == 300 + (weight * 600) \div 3000
    IN IF o < 900 THEN o ELSE 900

\* const edges = Array.from(edgeMap.values()).map(...)
ActivityEdges(srv, feds) ==
    LET map == EdgeMap(srv, feds)
    IN [i \in 1..Len(map) |->
          [id |-> ActivityKey(map[i].source, map[i].target),
           source |-> map[i].source, target |-> map[i].target,
           weight |-> map[i].weight, opacity |-> EdgeOpacity(map[i].weight)]]

\* `${hostA}|${hostB}`
BlockKey(hostA, hostB) == hostA \o <<"|">> \o hostB

\* The loop iteration with the flags of the relation overwritten by those of
\* the observation instead of being OR-ed into them.
BlockMapPutLastWins(map, fed, srv, feds) ==
    IF ~HostAllowed(fed.sourceHost, srv, feds)
       \/ ~HostAllowed(fed.targetHost, srv, feds)
    THEN map
    ELSE LET pair == SortedPair(fed.sourceHost, fed.targetHost)
             key == BlockKey(pair[1], pair[2])
             idx == MapIndex(map, key)
             existing == IF idx # 0 THEN map[idx]
                         ELSE [key |-> key, hostA |-> pair[1], hostB |-> pair[2],
                               forward |-> FALSE, backward |-> FALSE,
                               isBlocked |-> FALSE, isSuspended |-> FALSE]
             isForward == StrLt(fed.sourceHost, fed.targetHost)
             updated == [existing EXCEPT
                           !.forward = existing.forward \/ isForward,
                           !.backward = existing.backward \/ ~isForward,
                           !.isBlocked = fed.isBlocked,
                           !.isSuspended = fed.isSuspended]
         IN IF idx # 0 THEN [map EXCEPT ![idx] = updated]
            ELSE Append(map, updated)

\* One iteration of the loop over blockedFederations that fills
\* blockRelationMap.
BlockMapPut(map, fed, srv, feds) ==
    IF ~HostAllowed(fed.sourceHost, srv, feds)
       \/ ~HostAllowed(fed.targetHost, srv, feds)
    THEN map
    ELSE LET pair == SortedPair(fed.sourceHost, fed.targetHost)
             key == BlockKey(pair[1], pair[2])
             idx == MapIndex(map, key)
             existing == IF idx # 0 THEN map[idx]
                         ELSE [key |-> key, hostA |-> pair[1], hostB |-> pair[2],
                               forward |-> FALSE, backward |-> FALSE,
                               isBlocked |-> FALSE, isSuspended |-> FALSE]
             isForward == StrLt(fed.sourceHost, fed.targetHost)
             updated == [existing EXCEPT
                           !.forward = existing.forward \/ isForward,
                           !.backward = existing.backward \/ ~isForward,
                           !.isBlocked = existing.isBlocked \/ fed.isBlocked,
                           !.isSuspended = existing.isSuspended \/ fed.isSuspended]
         IN IF idx # 0 THEN [map EXCEPT ![idx] = updated]
            ELSE Append(map, updated)

RECURSIVE BlockMapFold(_, _, _, _)
BlockMapFold(map, bf, srv, feds) ==
    IF bf = <<>> THEN map
    ELSE BlockMapFold(BlockMapPut(map, Head(bf), srv, feds), Tail(bf), srv, feds)

BlockRelationMap(srv, feds) ==
    BlockMapFold(<<>>, BlockedFederations(feds), srv, feds)

\* key.replace(/\./g, '_')
ReplaceDots(s) == [i \in 1..Len(s) |-> IF s[i] = "." THEN "_" ELSE s[i]]

\* The block edges drawn from hostA to hostB whatever direction was observed.
BlockedEdgesInKeyOrder(srv, feds) ==
    LET map == BlockRelationMap(srv, feds)
    IN [i \in 1..Len(map) |->
          [id |-> <<"b", "l", "k", "_">> \o ReplaceDots(map[i].key),
           source |-> map[i].hostA,
           target |-> map[i].hostB,
           isBlocked |-> map[i].isBlocked,
           isSuspended |-> map[i].isSuspended,
           isMutual |-> map[i].forward /\ map[i].backward]]

\* for (const [key, relation] of blockRelationMap) blockedEdges.push(...)
BlockedEdges(srv, feds) ==
    LET map == BlockRelationMap(srv, feds)
    IN [i \in 1..Len(map) |->
          [id |-> <<"b", "l", "k", "_">> \o ReplaceDots(map[i].key),
           source |-> IF map[i].forward THEN map[i].hostA ELSE map[i].hostB,
           target |-> IF map[i].forward THEN map[i].hostB ELSE map[i].hostA,
           isBlocked |-> map[i].isBlocked,
           isSuspended |-> map[i].isSuspended,
           isMutual |-> map[i].forward /\ map[i].backward]]

RECURSIVE EdgeMapHosts(_)
EdgeMapHosts(map) ==
    IF map = <<>> THEN <<>>
    ELSE <<Head(map).source, Head(map).target>> \o EdgeMapHosts(Tail(map))

RECURSIVE BlockedHosts(_, _, _)
BlockedHosts(bf, srv, feds) ==
    IF bf = <<>> THEN <<>>
    ELSE (IF HostAllowed(Head(bf).sourceHost, srv, feds)
          THEN <<Head(bf).sourceHost>> ELSE <<>>)
         \o (IF HostAllowed(Head(bf).targetHost, srv, feds)
             THEN <<Head(bf).targetHost>> ELSE <<>>)
         \o BlockedHosts(Tail(bf), srv, feds)

\* viewpointServers that are in the catalog
CatalogViewpoints(srv, vps) ==
    SelectSeq(vps, LAMBDA h : h \in ServerHosts(srv))

\* The connectedHosts set, in insertion order.
\* The connectedHosts set without the hosts of the block observations.
ConnectedHostsOfActivity(srv, feds, vps) ==
    AddAllUnique(AddAllUnique(<<>>, EdgeMapHosts(EdgeMap(srv, feds))),
                 CatalogViewpoints(srv, vps))

ConnectedHosts(srv, feds, vps) ==
    AddAllUnique(
        AddAllUnique(
            AddAllUnique(<<>>, EdgeMapHosts(EdgeMap(srv, feds))),
            BlockedHosts(BlockedFederations(feds), srv, feds)),
        CatalogViewpoints(srv, vps))

\* usersCount: null
NoCount == 0 - 1

\* s.usersCount ?? 1
UsersOf(server) == IF server.usersCount = NoCount THEN 1 ELSE server.usersCount

RECURSIVE Log10(_)
\* Math.log10(n) for n >= 1, in thousandths: rounded down for n < 10, exact
\* for the powers of ten, from below otherwise.
Log10(n) ==
    IF n < 10 THEN <<0, 301, 477, 602, 698, 778, 845, 903, 954>>[n]
    ELSE 1000 + Log10(n \div 10)

\* allUserCounts: the counts of the catalog servers that are nodes.
AllUserCounts(srv, hosts) ==
    {UsersOf(srv[i]) : i \in {k \in 1..Len(srv) : Contains(hosts, srv[k].host)}}

\* logMaxUsers - logMinUsers || 1, in thousandths
LogUserRange(srv, hosts) ==
    LET logMaxUsers == Log10(SetMax(AllUserCounts(srv, hosts) \cup {1}) + 1)
        logMinUsers == Log10(SetMin(AllUserCounts(srv, hosts) \cup {1}) + 1)
    IN IF logMaxUsers - logMinUsers = 0 THEN 1000
       ELSE logMaxUsers - logMinUsers

\* size = 10 for a host the catalog does not list, in hundredths
UnknownNodeSize == 1000

\* The size of the node of host, in hundredths.
NodeSize(host, srv, hosts) ==
    IF host \in ServerHosts(srv)
    THEN LET server == srv[CHOOSE i \in 1..Len(srv) : srv[i].host = host]
             logMinUsers ==
                 Log10(SetMin(AllUserCounts(srv, hosts) \cup {1}) + 1)
         IN 1200 + (5800 * (Log10(UsersOf(server) + 1) - logMinUsers))
                   \div LogUserRange(srv, hosts)
    ELSE UnknownNodeSize

\* nodes.push({ data: { id: host, ..., size, ..., isViewpoint, ... } })
GraphNodes(srv, feds, vps) ==
    LET hosts == ConnectedHosts(srv, feds, vps)
    IN [i \in 1..Len(hosts) |->
          [id |-> hosts[i], size |-> NodeSize(hosts[i], srv, hosts),
           isViewpoint |-> Contains(vps, hosts[i])]]

\* elements: [...nodes, ...allEdges] handed to cytoscape()
BuildElements(srv, feds, vps) ==
    [nodes |-> GraphNodes(srv, feds, vps),
     edges |-> ActivityEdges(srv, feds),
     blockedEdges |-> BlockedEdges(srv, feds)]

\* ------------------------------------------------------------------------
\* State
\* ------------------------------------------------------------------------
VARIABLES
    servers,                    \* prop servers: the catalog handed to the graph
    allFederations,             \* page: SSR federations merged with fetched ones
    viewpointServers,           \* settings.viewpointServers (prop viewpointServers)
    fetches,                    \* page: federation fetches in flight
    fetchesIssued,              \* history: number of federation fetches issued
    privateServers,             \* page: hosts that answered CREDENTIAL_REQUIRED
    authUser,                   \* authState.user.host, NoHost when logged out
    authEffectDirty,            \* the auth $effect is scheduled to run
    authEffectCause,            \* history: what scheduled the auth $effect
    vpEdits,                    \* history: number of viewpoint edits
    phase,                      \* "created", "mounted" or "destroyed"
    hasHeight,                  \* container.clientHeight > 0
    cy,                         \* the live graph instance, or NoCy
    instances,                  \* graph instances created and not destroyed
    isInitialized,
    isLayoutRunning,
    initGraphTimeoutId,         \* rebuild debounce timer pending
    connectivityCheckTimeoutId, \* probe debounce timer pending
    retryTimers,                \* pending retry timers of initGraph
    initGraphAwaiting,          \* initGraph calls suspended at await getCytoscape()
    probes,                     \* probe batches in flight (awaiting Promise.all)
    connectivityResults,        \* Map "source->target" -> result, insertion order
    prevServersLength,
    prevFederationHash,
    prevViewpointHash,
    lastProbe,                  \* history: the probe batch that completed last
    probeLog,                   \* history: per pair of that batch, what the
                                \* remote servers and /api/connectivity answered
    selectedNode,               \* selectedNode of the newest instance's handlers
    selectedItem,               \* page: selectedItem (URL-linked selection)
    tapLog,                     \* history: the taps handled so far
    highlighted,                \* newest instance: the nodes that wear the
                                \* highlight style of highlightNode and
                                \* the edges drawn white and opaque
    tooltip,                    \* the tooltip: visible, type and subject
    focusHost,                  \* page: focusHost (prop focusHost)
    prevFocusHost,
    focusTimeoutId,             \* id of the focus delay timer, NoTimer for null
    focusHighlightTimeout,      \* id of the highlight expiry timer, or NoTimer
    currentFocusedNode,         \* the node focused last, NoNode for null
    focusHighlighted,           \* newest instance: the nodes that wear the
                                \* focus highlight style
    timers,                     \* the focus timers that are pending
    timerSeq,                   \* the timer id handed out last
    now,                        \* the clock, in milliseconds
    focusLog,                   \* history: the last focus request and the
                                \* last focus applied
    edgeVisibility,             \* prop edgeVisibility: the five show flags
    cytoscapePromise,           \* the memoised import of the graph library:
                                \* "none", "resolved" or "rejected"
    panVelocity,                \* in hundredths of a pixel per frame
    isPanning,
    inertiaAnimationId,         \* TRUE when not null
    inertiaFrames,              \* applyInertia frames requested and pending
    panLog                      \* history: drag starts, inertia steps applied
                                \* since the last one, whether it was released
                                \* and whether it met a pending inertia frame

pageVars ==
    <<servers, allFederations, viewpointServers, fetches, fetchesIssued,
      privateServers, authUser, authEffectDirty, authEffectCause, vpEdits>>

selVars == <<selectedNode, selectedItem, tapLog, highlighted, tooltip>>

graphVars ==
    <<phase, hasHeight, cy, instances, isInitialized, isLayoutRunning,
      initGraphTimeoutId, connectivityCheckTimeoutId, retryTimers,
      initGraphAwaiting, probes, connectivityResults, prevServersLength,
      prevFederationHash, prevViewpointHash, lastProbe, probeLog>>

focusVars ==
    <<focusHost, prevFocusHost, focusTimeoutId, focusHighlightTimeout,
      currentFocusedNode, focusHighlighted, timers, timerSeq, now, focusLog>>

panVars ==
    <<panVelocity, isPanning, inertiaAnimationId, inertiaFrames, panLog>>

vars ==
    <<cytoscapePromise, edgeVisibility, pageVars, graphVars, selVars, focusVars,
      panVars>>

NoCy == [nodes |-> <<>>, edges |-> <<>>, blockedEdges |-> <<>>,
         connectivityEdges |-> <<>>, hidden |-> {}, live |-> FALSE]

NoProbe == [viewpoints |-> <<>>, stale |-> FALSE, done |-> FALSE]

\* isDestroying is true only inside the synchronous body of destroyCy, so
\* every handler finds it false.
isDestroying == FALSE

\* ------------------------------------------------------------------------
\* Page: derived props
\* ------------------------------------------------------------------------
\* allFederations().filter(f => settings.viewpointServers.includes(f.sourceHost))
DisplayFederations(all, vps) ==
    SelectSeq(all, LAMBDA f : Contains(vps, f.sourceHost))

\* The federations prop of the graph.
federations == DisplayFederations(allFederations, viewpointServers)

\* A sorted, joined list of strings is determined by the multiset of its items.
BagOf(s) == [x \in Range(s) |-> Cardinality({i \in 1..Len(s) : s[i] = x})]

FederationKeys(feds) ==
    [i \in 1..Len(feds) |-> ActivityKey(feds[i].sourceHost, feds[i].targetHost)]

\* onMount: federations.map(f => `${f.sourceHost}-${f.targetHost}`).sort().join('|')
MountFederationHash(feds) == BagOf(FederationKeys(feds))

\* $effect: Array.from(fedSet).sort().join('|')
EffectFederationHash(feds) == [k \in Range(FederationKeys(feds)) |-> 1]

\* viewpointServers.slice().sort().join(',')
ViewpointHash(vps) == BagOf(vps)

EmptyHash == BagOf(<<>>)

\* ------------------------------------------------------------------------
\* Connectivity prober
\* ------------------------------------------------------------------------
\* A directional result as returned by /api/connectivity.
ProbeResult(reachable, error) == [reachable |-> reachable, error |-> error]

\* What the source server does with the federation/show-instance request:
\* kind "failed" is a fetch that rejects, "answered" one that resolves after
\* delay ms with the HTTP status, the error.code of the body ("none" if the
\* body carries none or is not JSON), whether the body is a JSON object, and
\* the isBlocked / isSuspended fields of that object.
ShowInstanceResponse(kind, delay, status, code, bodyParses, blocked, suspended) ==
    [kind |-> kind, delay |-> delay, status |-> status, code |-> code,
     bodyParses |-> bodyParses, isBlocked |-> blocked, isSuspended |-> suspended]

\* timeout: number = 5000
ProbeTimeoutMs == 5000

KnownResponse == ShowInstanceResponse("answered", 100, 200, "none", TRUE, FALSE, FALSE)

SlowResponse == ShowInstanceResponse("answered", 6000, 200, "none", TRUE, FALSE, FALSE)

\* res.ok
ResOk(res) == res.status >= 200 /\ res.status <= 299

\* The catch block with every exception reported as CONNECTION_FAILED.
CatchWithoutAbortCase(res, timeout) == ProbeResult(FALSE, "CONNECTION_FAILED")

\* catch (e): the abort of the timeout gives TIMEOUT, anything else
\* CONNECTION_FAILED.
Catch(res, timeout) ==
    IF res.delay >= timeout THEN ProbeResult(FALSE, "TIMEOUT")
    ELSE ProbeResult(FALSE, "CONNECTION_FAILED")

\* checkConnectivity(source, target, timeout) given the source's response.
CheckConnectivity(res, timeout) ==
    IF res.delay >= timeout \/ res.kind = "failed" THEN Catch(res, timeout)
    ELSE IF ~ResOk(res)
    THEN IF res.code = "NO_SUCH_OBJECT" THEN ProbeResult(FALSE, "NOT_FEDERATED")
         ELSE IF res.code = "CREDENTIAL_REQUIRED"
         THEN ProbeResult(FALSE, "CREDENTIAL_REQUIRED")
         ELSE ProbeResult(FALSE, "API_ERROR: " \o ToString(res.status))
    ELSE IF ~res.bodyParses THEN Catch(res, timeout)
    ELSE IF res.isBlocked THEN ProbeResult(FALSE, "BLOCKED")
    ELSE IF res.isSuspended THEN ProbeResult(FALSE, "SUSPENDED")
    ELSE ProbeResult(TRUE, "none")

NoResult == ProbeResult(FALSE, "none")

\* POST /api/connectivity with bidirectional: true.
Post(source, target, forwardRes, backwardRes) ==
    IF source = target
    THEN [status |-> 400, forward |-> NoResult, backward |-> NoResult,
          mutuallyReachable |-> FALSE]
    ELSE LET forwardResult == CheckConnectivity(forwardRes, ProbeTimeoutMs)
             backwardResult == CheckConnectivity(backwardRes, ProbeTimeoutMs)
         IN [status |-> 200, forward |-> forwardResult,
             backward |-> backwardResult,
             mutuallyReachable |-> forwardResult.reachable
                                   /\ backwardResult.reachable]

\* One pair's exchange with /api/connectivity: how the request fared
\* ("delivered", "platformError" for an error response produced in front of
\* the handler, "rejected" for a fetch that throws) and what the two remote
\* servers did.
Exchange(transport, forwardRes, backwardRes) ==
    [transport |-> transport, forwardRes |-> forwardRes,
     backwardRes |-> backwardRes]

\* The body of pairs.map(async ({ source, target }) => ...).
PairResult(source, target, exchange) ==
    LET answer == Post(source, target, exchange.forwardRes, exchange.backwardRes)
    IN IF exchange.transport = "rejected"
       THEN [forward |-> ProbeResult(FALSE, "FETCH_FAILED"),
             backward |-> ProbeResult(FALSE, "FETCH_FAILED")]
       ELSE IF exchange.transport = "platformError" \/ answer.status # 200
       THEN [forward |-> ProbeResult(FALSE, "API_ERROR"),
             backward |-> ProbeResult(FALSE, "API_ERROR")]
       ELSE [forward |-> answer.forward, backward |-> answer.backward]

\* The source's response while the host named down does not answer in time
\* (NoHost: every host answers).
ShowInstance(source, target, down) ==
    IF target = down THEN SlowResponse ELSE KnownResponse

RECURSIVE PairsFrom(_, _, _)
\* for i: for j = i + 1 ...: pairs.push({ source: vps[i], target: vps[j] })
PairsFrom(vps, i, j) ==
    IF i > Len(vps) THEN <<>>
    ELSE IF j > Len(vps) THEN PairsFrom(vps, i + 1, i + 2)
    ELSE <<[source |-> vps[i], target |-> vps[j]]>> \o PairsFrom(vps, i, j + 1)

ViewpointPairs(vps) == PairsFrom(vps, 1, 2)

\* The exchanges of the pairs while down does not answer.
BatchAnswers(pairs, down) ==
    [k \in 1..Len(pairs) |->
        Exchange("delivered",
                 ShowInstance(pairs[k].source, pairs[k].target, down),
                 ShowInstance(pairs[k].target, pairs[k].source, down))]

\* The results Promise.all delivers for the pairs.
BatchResults(pairs, exchanges) ==
    [k \in 1..Len(pairs) |->
        PairResult(pairs[k].source, pairs[k].target, exchanges[k])]

\* What the probes of each pair produced on the server.
ProbeLogOf(pairs, exchanges) ==
    [k \in 1..Len(pairs) |->
        [source |-> pairs[k].source, target |-> pairs[k].target,
         exchange |-> exchanges[k],
         answer |-> Post(pairs[k].source, pairs[k].target,
                         exchanges[k].forwardRes, exchanges[k].backwardRes)]]

\* `${source}->${target}`
ResultKey(source, target) == source \o <<"-", ">">> \o target

\* Map.set: replaces the value of an existing key, else appends.
MapSet(map, key, value) ==
    LET idx == MapIndex(map, key)
        entry == [key |-> key, value |-> value]
    IN IF idx # 0 THEN [map EXCEPT ![idx] = entry] ELSE Append(map, entry)

MapHas(map, key) == MapIndex(map, key) # 0

MapGet(map, key) == map[MapIndex(map, key)].value

RECURSIVE NewResults(_, _, _)
\* The newResults map filled from the batch's results.
NewResults(map, pairs, results) ==
    IF pairs = <<>> THEN map
    ELSE LET p == Head(pairs)
             r == Head(results)
             m1 == MapSet(map, ResultKey(p.source, p.target), r.forward)
             m2 == MapSet(m1, ResultKey(p.target, p.source), r.backward)
         IN NewResults(m2, Tail(pairs), Tail(results))

ConnectivityPrefix == <<"c", "o", "n", "n", "e", "c", "t", "i", "v", "i", "t", "y", "-">>

\* `connectivity-${hostA}-${hostB}`
ConnectivityId(hostA, hostB) == ConnectivityPrefix \o hostA \o <<"-">> \o hostB

RECURSIVE ConnectivityEdgesOf(_, _)
\* The connectivityEdges array of addConnectivityEdges.
ConnectivityEdgesOf(pairs, results) ==
    IF pairs = <<>> THEN <<>>
    ELSE LET hostA == Head(pairs).source
             hostB == Head(pairs).target
             fk == ResultKey(hostA, hostB)
             bk == ResultKey(hostB, hostA)
             hasF == MapHas(results, fk)
             hasB == MapHas(results, bk)
             forwardOk == IF hasF THEN MapGet(results, fk).reachable ELSE FALSE
             backwardOk == IF hasB THEN MapGet(results, bk).reachable ELSE FALSE
             rest == ConnectivityEdgesOf(Tail(pairs), results)
         IN IF ~hasF /\ ~hasB THEN rest
            ELSE <<[id |-> ConnectivityId(hostA, hostB),
                    source |-> hostA, target |-> hostB,
                    color |-> IF forwardOk /\ backwardOk THEN "#00d9ff"
                              ELSE IF forwardOk \/ backwardOk THEN "#ffaa00"
                              ELSE "#a855f7",
                    isMutualOk |-> forwardOk /\ backwardOk,
                    forwardOk |-> forwardOk, backwardOk |-> backwardOk,
                    forwardError |-> IF hasF THEN MapGet(results, fk).error
                                     ELSE "none",
                    backwardError |-> IF hasB THEN MapGet(results, bk).error
                                      ELSE "none"]>> \o rest

\* The relation shown for a connectivity edge with everything but "partial"
\* decided by isMutualOk.
EdgeRelationWithoutPartial(edge) ==
    IF edge.isMutualOk THEN "connectivity-ok" ELSE "connectivity-ng"

\* The relation the hover and tap handlers derive for a connectivity edge.
EdgeRelation(edge) ==
    IF edge.isMutualOk THEN "connectivity-ok"
    ELSE IF edge.forwardOk \/ edge.backwardOk THEN "connectivity-partial"
    ELSE "connectivity-ng"

\* An element of the instance's collection: its group, the array of the
\* model it belongs to, its isConnectivity data field and its data.
Element(group, kind, isConnectivity, data) ==
    [group |-> group, kind |-> kind, isConnectivity |-> isConnectivity,
     data |-> data]

ElementsOfKind(seq, group, kind, isConnectivity) ==
    [i \in 1..Len(seq) |-> Element(group, kind, isConnectivity, seq[i])]

\* cy.elements(): the nodes and the edges of instance c in one collection.
Elements(c) ==
    ElementsOfKind(c.nodes, "nodes", "node", FALSE)
    \o ElementsOfKind(c.edges, "edges", "activity", FALSE)
    \o ElementsOfKind(c.blockedEdges, "edges", "blocked", FALSE)
    \o ElementsOfKind(c.connectivityEdges, "edges", "connectivity", TRUE)

DataOfKind(els, kind) ==
    LET kept == SelectSeq(els, LAMBDA el : el.kind = kind)
    IN [i \in 1..Len(kept) |-> kept[i].data]

\* Instance c with the collection els.
WithElements(c, els) ==
    [c EXCEPT !.nodes = DataOfKind(els, "node"),
              !.edges = DataOfKind(els, "activity"),
              !.blockedEdges = DataOfKind(els, "blocked"),
              !.connectivityEdges = DataOfKind(els, "connectivity")]

\* A selector that matches every edge.
EveryEdgeSelector(el) == el.group = "edges"

\* The selector 'edge[?isConnectivity]'
ConnectivitySelector(el) == el.group = "edges" /\ el.isConnectivity

\* cy.elements(selector).remove()
RemoveConnectivity(els) ==
    SelectSeq(els, LAMBDA el : ~ConnectivitySelector(el))

RECURSIVE CyAdd(_, _)
\* cy.add(edges): an edge whose id is taken or whose source or target is no
\* node of the collection is reported and left out.
CyAdd(els, edges) ==
    IF edges = <<>> THEN els
    ELSE LET e == Head(edges)
             ids == {els[i].data.id : i \in 1..Len(els)}
             nodeIds == {els[i].data.id :
                           i \in {j \in 1..Len(els) : els[j].group = "nodes"}}
         IN CyAdd(IF e.id \notin ids /\ e.source \in nodeIds
                     /\ e.target \in nodeIds
                  THEN Append(els, Element("edges", "connectivity", TRUE, e))
                  ELSE els,
                  Tail(edges))

\* addConnectivityEdges(): the graph instance afterwards.
AddConnectivityEdges(c, vps, results) ==
    IF ~c.live \/ isDestroying \/ Len(vps) < 2 THEN c
    ELSE [WithElements(c, CyAdd(RemoveConnectivity(Elements(c)),
                                ConnectivityEdgesOf(ViewpointPairs(vps),
                                                    results)))
            EXCEPT !.hidden = {el \in c.hidden : el.kind # "connectivity"}]

\* DEFAULT_EDGE_VISIBILITY
DefaultEdgeVisibility ==
    [showFederation |-> TRUE, showBlocked |-> TRUE, showSuspended |-> TRUE,
     showConnectivityOk |-> TRUE, showConnectivityNg |-> TRUE]

\* An element whose style has display: none.
Hidden(kind, id) == [kind |-> kind, id |-> id]

\* The edges of instance c that applyEdgeVisibility leaves with display:
\* none under the flags.
HiddenEdges(c, flags) ==
    {Hidden("activity", c.edges[i].id) :
        i \in {k \in 1..Len(c.edges) : ~flags.showFederation}}
    \cup {Hidden("blocked", c.blockedEdges[i].id) :
            i \in {k \in 1..Len(c.blockedEdges) :
                     LET e == c.blockedEdges[k]
                     IN IF e.isSuspended THEN ~flags.showSuspended
                        ELSE IF e.isBlocked THEN ~flags.showBlocked
                        ELSE Hidden("blocked", e.id) \in c.hidden}}
    \cup {Hidden("connectivity", c.connectivityEdges[i].id) :
            i \in {k \in 1..Len(c.connectivityEdges) :
                     IF c.connectivityEdges[k].isMutualOk
                     THEN ~flags.showConnectivityOk
                     ELSE ~flags.showConnectivityNg}}

\* connectedNodeIds: the endpoints of the edges left displayed.
ConnectedNodeIds(c, flags) ==
    UNION {{e.data.source, e.data.target} :
             e \in {el \in Range(Elements(c)) :
                      /\ el.group = "edges"
                      /\ Hidden(el.kind, el.data.id) \notin HiddenEdges(c, flags)}}

\* applyEdgeVisibility(): the instance afterwards.
ApplyEdgeVisibility(c, flags) ==
    IF ~c.live \/ isDestroying THEN c
    ELSE [c EXCEPT !.hidden =
            HiddenEdges(c, flags)
            \cup {Hidden("node", c.nodes[i].id) :
                    i \in {k \in 1..Len(c.nodes) :
                             c.nodes[k].id \notin ConnectedNodeIds(c, flags)}}]

\* $effect (edgeVisibility, cy): the instance after the effect ran, when it
\* runs.
EdgeVisibilityEffect(ph, c, flags) ==
    IF ph = "mounted" THEN ApplyEdgeVisibility(c, flags) ELSE c

\* ------------------------------------------------------------------------
\* Graph life cycle
\* ------------------------------------------------------------------------
\* What a call of initGraph does before its first await:
\* "skip" (return), "retry" (schedule the retry timer) or "start".
InitGraphEntry(ph, height, running) ==
    IF ph # "mounted" THEN "skip"
    ELSE IF ~height THEN "retry"
    ELSE IF running THEN "skip"
    ELSE "start"

\* The flags written for the viewpoints only, the other nodes left as they are.
MarkViewpointsOnly(c, vps) ==
    [c EXCEPT !.nodes = [i \in 1..Len(c.nodes) |->
                           [c.nodes[i] EXCEPT
                              !.isViewpoint = c.nodes[i].isViewpoint
                                              \/ Contains(vps, c.nodes[i].id)]]]

\* $effect (viewpointServers): the node flags it writes.
MarkViewpoints(c, vps) ==
    [c EXCEPT !.nodes = [i \in 1..Len(c.nodes) |->
                           [c.nodes[i] EXCEPT
                              !.isViewpoint = Contains(vps, c.nodes[i].id)]]]

\* Does the $effect on viewpointServers run its body for instance c?
ViewpointEffectRuns(ph, c, vps) ==
    ph = "mounted" /\ ViewpointHash(vps) # prevViewpointHash
    /\ c.live /\ ~isDestroying

\* The effect updating the flags without calling debouncedCheckConnectivity.
ViewpointEffectWithoutProbe(ph, c, vps, timer) ==
    IF ViewpointEffectRuns(ph, c, vps)
    THEN /\ prevViewpointHash' = ViewpointHash(vps)
         /\ cy' = MarkViewpoints(c, vps)
         /\ connectivityCheckTimeoutId' = timer
    ELSE /\ prevViewpointHash' = prevViewpointHash
         /\ cy' = c
         /\ connectivityCheckTimeoutId' = timer

\* The $effect on viewpointServers, run after c or vps changed.
ViewpointEffect(ph, c, vps, timer) ==
    IF ViewpointEffectRuns(ph, c, vps)
    THEN /\ prevViewpointHash' = ViewpointHash(vps)
         /\ cy' = MarkViewpoints(c, vps)
         /\ connectivityCheckTimeoutId' = TRUE
    ELSE /\ prevViewpointHash' = prevViewpointHash
         /\ cy' = c
         /\ connectivityCheckTimeoutId' = timer

\* The $effect on servers/federations, run after the props changed; timer is
\* the state of the rebuild debounce timer and prevLen, prevHash the values of
\* prevServersLength and prevFederationHash before it runs.
DataEffect(ph, srv, feds, timer, prevLen, prevHash) ==
    IF ph = "mounted"
       /\ (Len(srv) # prevLen \/ EffectFederationHash(feds) # prevHash)
    THEN /\ prevServersLength' = Len(srv)
         /\ prevFederationHash' = EffectFederationHash(feds)
         /\ initGraphTimeoutId' = TRUE
    ELSE /\ prevServersLength' = prevLen
         /\ prevFederationHash' = prevHash
         /\ initGraphTimeoutId' = timer

RemoveAt(s, i) == SubSeq(s, 1, i - 1) \o SubSeq(s, i + 1, Len(s))

\* onMount, followed by the first run of the effects.
OnMount ==
    /\ phase = "created"
    /\ phase' = "mounted"
    /\ LET entry == IF hasHeight
                    THEN InitGraphEntry("mounted", hasHeight, isLayoutRunning)
                    ELSE "skip"
       IN /\ isInitialized' = (isInitialized \/ hasHeight)
          /\ isLayoutRunning' = (isLayoutRunning \/ entry = "start")
          /\ initGraphAwaiting' = initGraphAwaiting + (IF entry = "start" THEN 1 ELSE 0)
          /\ retryTimers' = retryTimers + (IF entry = "retry" THEN 1 ELSE 0)
    /\ DataEffect("mounted", servers, federations, initGraphTimeoutId,
                  Len(servers), MountFederationHash(federations))
    /\ ViewpointEffect("mounted", cy, viewpointServers, connectivityCheckTimeoutId)
    /\ prevFocusHost' = focusHost
    /\ UNCHANGED <<cytoscapePromise, edgeVisibility, panVars, focusHost, focusTimeoutId, focusHighlightTimeout,
                   currentFocusedNode, focusHighlighted, timers, timerSeq, now,
                   focusLog, probeLog,
                   pageVars, selVars, hasHeight, instances, probes, connectivityResults,
                   lastProbe>>

\* The container is resized; the ResizeObserver callback runs.
Resize(h) ==
    /\ phase = "mounted"
    /\ h # hasHeight
    /\ hasHeight' = h
    /\ LET init == h /\ ~isInitialized /\ ~cy.live
           entry == IF init THEN InitGraphEntry(phase, h, isLayoutRunning)
                    ELSE "skip"
       IN /\ isInitialized' = (isInitialized \/ init)
          /\ isLayoutRunning' = (isLayoutRunning \/ entry = "start")
          /\ initGraphAwaiting' = initGraphAwaiting + (IF entry = "start" THEN 1 ELSE 0)
          /\ retryTimers' = retryTimers + (IF entry = "retry" THEN 1 ELSE 0)
    /\ UNCHANGED <<cytoscapePromise, edgeVisibility, panVars, focusVars, probeLog,
                   pageVars, selVars, phase, cy, instances, initGraphTimeoutId,
                   connectivityCheckTimeoutId, probes, connectivityResults,
                   prevServersLength, prevFederationHash, prevViewpointHash,
                   lastProbe>>

\* The rebuild debounce timer fires: destroyCy(); initGraph().
DebouncedInitGraphFire ==
    /\ initGraphTimeoutId
    /\ initGraphTimeoutId' = FALSE
    /\ LET destroyed == cy.live /\ ~isDestroying
           running == IF destroyed THEN FALSE ELSE isLayoutRunning
           cyAfter == IF destroyed THEN NoCy ELSE cy
           entry == InitGraphEntry(phase, hasHeight, running)
       IN /\ instances' = instances - (IF destroyed THEN 1 ELSE 0)
          /\ isLayoutRunning' = (running \/ entry = "start")
          /\ initGraphAwaiting' = initGraphAwaiting + (IF entry = "start" THEN 1 ELSE 0)
          /\ retryTimers' = retryTimers + (IF entry = "retry" THEN 1 ELSE 0)
          /\ ViewpointEffect(phase, cyAfter, viewpointServers,
                             connectivityCheckTimeoutId)
    /\ UNCHANGED <<cytoscapePromise, edgeVisibility, panVars, focusVars, probeLog, pageVars, selVars, phase, hasHeight, isInitialized, probes,
                   connectivityResults, prevServersLength, prevFederationHash,
                   lastProbe>>

\* A retry timer of initGraph fires.
RetryTimerFire ==
    /\ retryTimers > 0
    /\ LET entry == IF phase = "mounted" /\ hasHeight /\ ~isLayoutRunning
                    THEN InitGraphEntry(phase, hasHeight, isLayoutRunning)
                    ELSE "skip"
       IN /\ retryTimers' = retryTimers - 1 + (IF entry = "retry" THEN 1 ELSE 0)
          /\ isLayoutRunning' = (isLayoutRunning \/ entry = "start")
          /\ initGraphAwaiting' = initGraphAwaiting + (IF entry = "start" THEN 1 ELSE 0)
    /\ UNCHANGED <<cytoscapePromise, edgeVisibility, panVars, focusVars, probeLog,
                   pageVars, selVars, phase, hasHeight, cy, instances, isInitialized,
                   initGraphTimeoutId, connectivityCheckTimeoutId, probes,
                   connectivityResults, prevServersLength, prevFederationHash,
                   prevViewpointHash, lastProbe>>

\* ------------------------------------------------------------------------
\* Selection highlight and the selection of the deep link
\* ------------------------------------------------------------------------
\* selectedItem = null
NoItem == [type |-> "none", value |-> NoHost]

NodeIds(c) == {c.nodes[i].id : i \in 1..Len(c.nodes)}

\* The edges of instance c, of the three kinds.
EdgesOf(c) ==
    {c.edges[i] : i \in 1..Len(c.edges)}
    \cup {c.blockedEdges[i] : i \in 1..Len(c.blockedEdges)}
    \cup {c.connectivityEdges[i] : i \in 1..Len(c.connectivityEdges)}

EdgeIds(c) == {e.id : e \in EdgesOf(c)}

\* node.connectedEdges(), as ids; empty when the element is not a node of c.
ConnectedEdgeIds(c, h) ==
    IF h \in NodeIds(c)
    THEN {e.id : e \in {x \in EdgesOf(c) : x.source = h \/ x.target = h}}
    ELSE {}

NoHighlight == [nodes |-> {}, edges |-> {}]

\* tooltip = $state({ visible: false, x: 0, y: 0, type: 'node' })
NoTooltip == [visible |-> FALSE, type |-> "node", subject |-> NoHost]

\* tooltip = { visible: true, type, ... } for a node (its host) or an edge
\* (its id).
Tooltip(type, subject) == [visible |-> TRUE, type |-> type, subject |-> subject]

\* tooltip.visible = false
HideTooltip(tip) == [tip EXCEPT !.visible = FALSE]

\* highlightNode(node): the node gets the glow, its edges the highlight colour.
HighlightNode(hl, c, h) ==
    [nodes |-> hl.nodes \cup (NodeIds(c) \cap {h}),
     edges |-> hl.edges \cup ConnectedEdgeIds(c, h)]

\* unhighlightNode(node): the node and its edges get their own style back.
UnhighlightNode(hl, c, h) ==
    [nodes |-> hl.nodes \ {h},
     edges |-> hl.edges \ ConnectedEdgeIds(c, h)]

\* cy.getElementById(id): the element of that id, a node before an edge.
GetElementById(c, id) ==
    IF id \in NodeIds(c) THEN [kind |-> "node", id |-> id]
    ELSE IF id \in EdgeIds(c) THEN [kind |-> "edge", id |-> id]
    ELSE [kind |-> "none", id |-> id]

\* `${hostA}..${hostB}`
SelectValue(hostA, hostB) == hostA \o <<".", ".">> \o hostB

\* select.includes('..')
IncludesDots(s) == \E i \in 1..(Len(s) - 1) : s[i] = "." /\ s[i + 1] = "."

\* s.indexOf('..') + 1, 0 when s has no '..'
IndexOfDots(s) ==
    IF IncludesDots(s)
    THEN CHOOSE i \in 1..(Len(s) - 1) :
           /\ s[i] = "." /\ s[i + 1] = "."
           /\ \A j \in 1..(i - 1) : ~(s[j] = "." /\ s[j + 1] = ".")
    ELSE 0

\* const [hostA, hostB] = value.split('..'); a missing part is the empty string.
SplitDots(s) ==
    LET i == IndexOfDots(s)
        rest == SubSeq(s, i + 2, Len(s))
        j == IndexOfDots(rest)
    IN IF i = 0 THEN <<s, <<>>>>
       ELSE <<SubSeq(s, 1, i - 1),
              IF j = 0 THEN rest ELSE SubSeq(rest, 1, j - 1)>>

\* parseSelectFromQuery: the selection the URL's select parameter stands for.
ParseSelectFromQuery(select) ==
    IF select = <<>> THEN NoItem
    ELSE IF IncludesDots(select) THEN [type |-> "edge", value |-> select]
    ELSE [type |-> "node", value |-> select]

\* handleSelectEdge: the hosts are stored in string order.
HandleSelectEdge(sourceHost, targetHost) ==
    IF StrLt(sourceHost, targetHost)
    THEN [type |-> "edge", value |-> SelectValue(sourceHost, targetHost)]
    ELSE [type |-> "edge", value |-> SelectValue(targetHost, sourceHost)]

\* The ids handleLayoutComplete tries for the edge hostA..hostB, in order.
EdgeIdCandidates(hostA, hostB) ==
    <<ActivityKey(hostA, hostB), ActivityKey(hostB, hostA),
      <<"b", "l", "o", "c", "k", "e", "d", "-">> \o ActivityKey(hostA, hostB),
      <<"b", "l", "o", "c", "k", "e", "d", "-">> \o ActivityKey(hostB, hostA)>>

\* The first candidate that names an element of c.
FindEdge(c, hostA, hostB) ==
    LET ids == EdgeIdCandidates(hostA, hostB)
        hit == {i \in 1..Len(ids) : GetElementById(c, ids[i]).kind # "none"}
    IN IF hit = {} THEN [kind |-> "none", id |-> NoHost]
       ELSE GetElementById(c, ids[CHOOSE i \in hit : \A j \in hit : i <= j])

\* The end of handleLayoutComplete: the selection of initialSelection is put
\* on the new instance c.  The style of an edge selection is set on the
\* element and no reference to it is kept.
RestoreSelection(c, item) ==
    IF item.type = "node"
    THEN LET node == GetElementById(c, item.value)
         IN IF node.kind = "none"
            THEN [selectedNode |-> NoHost, highlighted |-> NoHighlight,
                  selectedItem |-> item]
            ELSE [selectedNode |-> item.value,
                  highlighted |-> HighlightNode(NoHighlight, c, item.value),
                  selectedItem |-> [type |-> "node", value |-> item.value]]
    ELSE IF item.type = "edge"
    THEN LET hostA == SplitDots(item.value)[1]
             hostB == SplitDots(item.value)[2]
             edge == FindEdge(c, hostA, hostB)
         IN IF hostA = <<>> \/ hostB = <<>> \/ edge.kind = "none"
            THEN [selectedNode |-> NoHost, highlighted |-> NoHighlight,
                  selectedItem |-> item]
            ELSE [selectedNode |-> NoHost,
                  highlighted |->
                      [nodes |-> {},
                       edges |-> IF edge.kind = "edge" THEN {edge.id} ELSE {}],
                  selectedItem |-> HandleSelectEdge(hostA, hostB)]
    ELSE [selectedNode |-> NoHost, highlighted |-> NoHighlight,
          selectedItem |-> item]

\* ------------------------------------------------------------------------
\* Focus: camera move and timed highlight
\* ------------------------------------------------------------------------
\* setTimeout(..., 150) of the $effect on focusHost
FocusDelayMs == 150

\* setTimeout(..., 3000) of focusOnNode
FocusHighlightMs == 3000

NoTimer == 0

\* currentFocusedNode = null
NoNode == [id |-> NoHost, stale |-> FALSE]

\* A pending timer of the focus code: kind "focus" runs focusOnNode(host),
\* kind "highlight" clears the highlight of the node it was set for; stale
\* tells that this node belongs to an instance that has been replaced.
Timer(id, kind, host, due) ==
    [id |-> id, kind |-> kind, host |-> host, due |-> due, stale |-> FALSE]

\* clearTimeout(id)
ClearTimeout(pending, id) == {t \in pending : t.id # id}

\* The nodes held by timers and variables after the instance was replaced.
StaleTimers(pending) == {[t EXCEPT !.stale = TRUE] : t \in pending}

StaleNode(node) == IF node.id = NoHost THEN node ELSE [node EXCEPT !.stale = TRUE]

\* clearFocusHighlight(node): the focus highlights of instance c after it.
ClearFocusHighlight(lit, c, node) ==
    IF ~c.live \/ isDestroying \/ node.stale THEN lit ELSE lit \ {node.id}

\* Does focusOnNode(host) get past its guards?
FocusApplies(host) ==
    /\ cy.live /\ ~isDestroying /\ ~isLayoutRunning
    /\ GetElementById(cy, host).kind # "none"
    /\ Hidden("node", host) \notin cy.hidden

\* clearFocusHighlight(node), seen from the highlight of highlightNode: the
\* node gets its own border back, its edges their own colour and opacity.
ClearFocusResets(hl, c, node) ==
    IF ~c.live \/ isDestroying \/ node.stale THEN hl
    ELSE UnhighlightNode(hl, c, node.id)

\* focusOnNode(host) that neither clears the pending expiry timer nor the
\* highlight of the node focused before.
FocusOnNodeWithoutClear(host, pending) ==
    IF FocusApplies(host)
    THEN /\ timers' = pending
                      \cup {Timer(timerSeq + 1, "highlight", host,
                                  now + FocusHighlightMs)}
         /\ focusHighlightTimeout' = timerSeq + 1
         /\ timerSeq' = timerSeq + 1
         /\ focusHighlighted' = focusHighlighted \cup (NodeIds(cy) \cap {host})
         /\ highlighted' = highlighted
         /\ currentFocusedNode' = [id |-> host, stale |-> FALSE]
         /\ focusLog' = [focusLog EXCEPT !.appliedHost = host, !.appliedAt = now]
    ELSE /\ timers' = pending
         /\ UNCHANGED <<focusHighlightTimeout, timerSeq, focusHighlighted,
                        highlighted, currentFocusedNode, focusLog>>

\* focusOnNode(host), pending being the timers pending when it is called.
FocusOnNode(host, pending) ==
    IF FocusApplies(host)
    THEN /\ timers' = ClearTimeout(pending, focusHighlightTimeout)
                      \cup {Timer(timerSeq + 1, "highlight", host,
                                  now + FocusHighlightMs)}
         /\ focusHighlightTimeout' = timerSeq + 1
         /\ timerSeq' = timerSeq + 1
         /\ focusHighlighted' =
                (IF currentFocusedNode.id # NoHost /\ currentFocusedNode.id # host
                 THEN ClearFocusHighlight(focusHighlighted, cy, currentFocusedNode)
                 ELSE focusHighlighted) \cup (NodeIds(cy) \cap {host})
         /\ highlighted' =
                IF currentFocusedNode.id # NoHost /\ currentFocusedNode.id # host
                THEN ClearFocusResets(highlighted, cy, currentFocusedNode)
                ELSE highlighted
         /\ currentFocusedNode' = [id |-> host, stale |-> FALSE]
         /\ focusLog' = [focusLog EXCEPT !.appliedHost = host, !.appliedAt = now]
    ELSE /\ timers' = pending
         /\ UNCHANGED <<focusHighlightTimeout, timerSeq, focusHighlighted,
                        highlighted, currentFocusedNode, focusLog>>

\* Does the $effect on focusHost and cy run its body?
FocusEffectRuns(ph, c, host) ==
    /\ ph = "mounted" /\ c.live /\ host # NoHost /\ ~isDestroying
    /\ (host # prevFocusHost \/ prevFocusHost = NoHost)

\* The $effect on focusHost and cy, run after host or c changed; pending are
\* the timers pending when it runs.
FocusEffect(ph, c, host, pending) ==
    IF FocusEffectRuns(ph, c, host)
    THEN /\ prevFocusHost' = host
         /\ timers' = ClearTimeout(pending, focusTimeoutId)
                      \cup {Timer(timerSeq + 1, "focus", host, now + FocusDelayMs)}
         /\ focusTimeoutId' = timerSeq + 1
         /\ timerSeq' = timerSeq + 1
    ELSE /\ timers' = pending
         /\ UNCHANGED <<prevFocusHost, focusTimeoutId, timerSeq>>

\* cytoscape({ container, elements, ... }): the new instance.
CyInstance(elements) ==
    [nodes |-> elements.nodes, edges |-> elements.edges,
     blockedEdges |-> elements.blockedEdges,
     connectivityEdges |-> <<>>, hidden |-> {}, live |-> TRUE]

\* What handleLayoutComplete leaves in selectedNode, in the styles and, by
\* the page's handlers, in selectedItem.
SelectionAssigned(bound, restored) ==
    /\ selectedNode' = restored.selectedNode
    /\ highlighted' = restored.highlighted
    /\ tooltip' = tooltip
    /\ selectedItem' = IF bound THEN restored.selectedItem ELSE selectedItem

\* cy = cyInstance and what follows it: handleLayoutComplete when the
\* handlers could be bound, then the $effect on viewpointServers.
CyAssigned(bound, cyInstance) ==
    /\ ViewpointEffect(phase, cyInstance, viewpointServers,
                       IF bound THEN TRUE ELSE connectivityCheckTimeoutId)
    /\ SelectionAssigned(bound,
           RestoreSelection(cyInstance, IF bound THEN selectedItem ELSE NoItem))
    /\ FocusEffect(phase, cyInstance, focusHost, StaleTimers(timers))
    /\ focusHighlighted' = {}
    /\ currentFocusedNode' = StaleNode(currentFocusedNode)

\* await getCytoscape() resolves: the rest of initGraph, handleLayoutComplete
\* included, then the effects that depend on cy.  After the teardown the
\* container binding may already be cleared; container.addEventListener then
\* throws and the call ends after cy = cyInstance.
InitGraphResume(bound) ==
    /\ initGraphAwaiting > 0
    /\ cytoscapePromise # "rejected"
    /\ cytoscapePromise' = "resolved"
    /\ phase # "destroyed" => bound
    /\ initGraphAwaiting' = initGraphAwaiting - 1
    /\ instances' = instances + 1
    /\ isLayoutRunning' = IF bound THEN FALSE ELSE isLayoutRunning
    /\ CyAssigned(bound,
                  EdgeVisibilityEffect(
                      phase,
                      CyInstance(BuildElements(servers, federations,
                                               viewpointServers)),
                      edgeVisibility))
    /\ UNCHANGED <<edgeVisibility, panVars, focusHost, focusHighlightTimeout, now, focusLog,
                   probeLog, pageVars, tapLog, phase, hasHeight,
                   isInitialized, initGraphTimeoutId, retryTimers, probes,
                   connectivityResults, prevServersLength, prevFederationHash,
                   lastProbe>>

\* await getCytoscape() rejects (the import of the library failed): the
\* call of initGraph ends there, and the memoised promise stays rejected.
InitGraphReject ==
    /\ initGraphAwaiting > 0
    /\ cytoscapePromise # "resolved"
    /\ cytoscapePromise' = "rejected"
    /\ initGraphAwaiting' = initGraphAwaiting - 1
    /\ UNCHANGED <<edgeVisibility, pageVars, selVars, focusVars, panVars,
                   phase, hasHeight, cy, instances, isInitialized,
                   isLayoutRunning, initGraphTimeoutId,
                   connectivityCheckTimeoutId, retryTimers, probes,
                   connectivityResults, prevServersLength, prevFederationHash,
                   prevViewpointHash, lastProbe, probeLog>>

\* The probe debounce timer fires: checkViewpointConnectivity() up to its await.
ConnectivityTimerFire ==
    /\ connectivityCheckTimeoutId
    /\ connectivityCheckTimeoutId' = FALSE
    /\ Len(viewpointServers) >= 2 => Len(probes) < MaxProbes
    /\ probes' = IF Len(viewpointServers) < 2 THEN probes
                 ELSE Append(probes, [viewpoints |-> viewpointServers])
    /\ UNCHANGED <<cytoscapePromise, edgeVisibility, panVars, focusVars, probeLog,
                   pageVars, selVars, phase, hasHeight, cy, instances, isInitialized,
                   isLayoutRunning, initGraphTimeoutId, retryTimers,
                   initGraphAwaiting, connectivityResults, prevServersLength,
                   prevFederationHash, prevViewpointHash, lastProbe>>

\* The completion of batch i drawing the edges of the batch's own pairs.
ProbeCompleteOwnPairs(i, exchanges) ==
    /\ i \in 1..Len(probes)
    /\ LET pairs == ViewpointPairs(probes[i].viewpoints)
           results == BatchResults(pairs, exchanges)
           newResults == NewResults(<<>>, pairs, results)
       IN /\ Len(exchanges) = Len(pairs)
          /\ connectivityResults' = newResults
          /\ cy' = AddConnectivityEdges(cy, probes[i].viewpoints, newResults)
    /\ probeLog' = ProbeLogOf(ViewpointPairs(probes[i].viewpoints), exchanges)
    /\ probes' = RemoveAt(probes, i)
    /\ lastProbe' = [viewpoints |-> probes[i].viewpoints,
                     stale |-> ViewpointHash(probes[i].viewpoints)
                               # ViewpointHash(viewpointServers),
                     done |-> TRUE]
    /\ UNCHANGED <<cytoscapePromise, edgeVisibility, panVars, focusVars, pageVars, selVars, phase, hasHeight, instances, isInitialized,
                   isLayoutRunning, initGraphTimeoutId,
                   connectivityCheckTimeoutId, retryTimers, initGraphAwaiting,
                   prevServersLength, prevFederationHash, prevViewpointHash>>

\* Promise.all of batch i resolves, the pairs' exchanges being as given: the
\* per-pair result mapping and the rest of
\* checkViewpointConnectivity.
ProbeComplete(i, exchanges) ==
    /\ i \in 1..Len(probes)
    /\ LET pairs == ViewpointPairs(probes[i].viewpoints)
           results == BatchResults(pairs, exchanges)
           newResults == NewResults(<<>>, pairs, results)
       IN /\ Len(exchanges) = Len(pairs)
          /\ connectivityResults' = newResults
          /\ cy' = AddConnectivityEdges(cy, viewpointServers, newResults)
    /\ probeLog' = ProbeLogOf(ViewpointPairs(probes[i].viewpoints), exchanges)
    /\ probes' = RemoveAt(probes, i)
    /\ lastProbe' = [viewpoints |-> probes[i].viewpoints,
                     stale |-> ViewpointHash(probes[i].viewpoints)
                               # ViewpointHash(viewpointServers),
                     done |-> TRUE]
    /\ UNCHANGED <<cytoscapePromise, edgeVisibility, panVars, focusVars, pageVars, selVars, phase, hasHeight, instances, isInitialized,
                   isLayoutRunning, initGraphTimeoutId,
                   connectivityCheckTimeoutId, retryTimers, initGraphAwaiting,
                   prevServersLength, prevFederationHash, prevViewpointHash>>

\* ------------------------------------------------------------------------
\* Inertial panning
\* ------------------------------------------------------------------------
\* const FRICTION = 0.95, in hundredths
FRICTION == 95

\* const MIN_VELOCITY = 0.5, in hundredths of a pixel
MIN_VELOCITY == 50

ZeroVelocity == [x |-> 0, y |-> 0]

\* Math.abs
Abs(n) == IF n < 0 THEN 0 - n ELSE n

\* v * FRICTION, the result cut to hundredths.
Decay(v) == IF v < 0 THEN 0 - ((Abs(v) * FRICTION) \div 100)
            ELSE (v * FRICTION) \div 100

\* stopInertia() that leaves the requested frame pending.
StopInertiaWithoutCancel ==
    /\ inertiaFrames' = inertiaFrames
    /\ inertiaAnimationId' = FALSE
    /\ panVelocity' = ZeroVelocity

\* stopInertia()
StopInertia ==
    /\ inertiaFrames' = IF inertiaAnimationId THEN 0 ELSE inertiaFrames
    /\ inertiaAnimationId' = FALSE
    /\ panVelocity' = ZeroVelocity

\* The cleanup returned by onMount.
Teardown ==
    /\ phase = "mounted"
    /\ phase' = "destroyed"
    /\ initGraphTimeoutId' = FALSE
    /\ connectivityCheckTimeoutId' = FALSE
    /\ LET destroyed == cy.live /\ ~isDestroying
       IN /\ instances' = instances - (IF destroyed THEN 1 ELSE 0)
          /\ isLayoutRunning' = IF destroyed THEN FALSE ELSE isLayoutRunning
          /\ cy' = IF destroyed THEN NoCy ELSE cy
    /\ timers' = ClearTimeout(ClearTimeout(timers, focusHighlightTimeout),
                              focusTimeoutId)
    /\ StopInertia
    /\ UNCHANGED <<cytoscapePromise, edgeVisibility, isPanning, panLog, focusHost, prevFocusHost, focusTimeoutId,
                   focusHighlightTimeout, currentFocusedNode, focusHighlighted,
                   timerSeq, now, focusLog,
                   probeLog, pageVars, selVars, hasHeight, isInitialized, retryTimers,
                   initGraphAwaiting, probes, connectivityResults,
                   prevServersLength, prevFederationHash, prevViewpointHash,
                   lastProbe>>

\* ------------------------------------------------------------------------
\* Page: viewpoint edits and federation fetches
\* ------------------------------------------------------------------------
\* What POST /api/federation returns for a seed host that answers: the
\* snapshot of the deployment the model runs against.
FetchedFederations(h) ==
    IF h = HostUniverse[1]
    THEN <<Federation(HostUniverse[1], HostUniverse[3], 1, 0, FALSE, FALSE),
           Federation(HostUniverse[1], HostUniverse[2], 0, 0, TRUE, FALSE)>>
    ELSE IF h = HostUniverse[3]
    THEN <<Federation(HostUniverse[3], HostUniverse[1], 2, 5, FALSE, FALSE)>>
    ELSE <<>>

\* The answers the federation endpoint can give for seed host h to a page
\* whose logged-in user is on host user.  The last host of the model keeps
\* its federation list private.
ServerAnswers(h, user) ==
    IF h = HostUniverse[NumHosts]
    THEN {"CREDENTIAL_REQUIRED"} \cup (IF user = h THEN {"okAuthenticated"} ELSE {})
    ELSE {"ok", "failed"}

RECURSIVE MergeFederations(_, _)
\* allFederations after additionalFederations took the fetched feds: one
\* entry per `${sourceHost}-${targetHost}` key, the first one wins.
MergeFederations(all, feds) ==
    IF feds = <<>> THEN all
    ELSE IF Contains(FederationKeys(all),
                     ActivityKey(Head(feds).sourceHost, Head(feds).targetHost))
         THEN MergeFederations(all, Tail(feds))
         ELSE MergeFederations(Append(all, Head(feds)), Tail(feds))

\* The viewpoints whose federation data is delivered with the page.
DefaultViewpoints == <<HostUniverse[1], HostUniverse[3]>>

\* data.federations: the federation data delivered with the page.
LoadedFederations ==
    MergeFederations(<<>>, FetchedFederations(HostUniverse[1])
                           \o FetchedFederations(HostUniverse[3]))

\* The source hosts of data.federations.
ssrViewpoints == ViewpointHosts(LoadedFederations)

\* handleAddViewpoint: new Set([...ssrViewpoints(), ...additionalFederations.map(f => f.sourceHost)])
ExistingHosts(all) == ssrViewpoints \cup ViewpointHosts(all)

\* The graph's effects after the page changed allFederations or
\* viewpointServers.
PropsUpdate(newAll, newVps) ==
    /\ allFederations' = newAll
    /\ viewpointServers' = newVps
    /\ DataEffect(phase, servers, DisplayFederations(newAll, newVps),
                  initGraphTimeoutId, prevServersLength, prevFederationHash)
    /\ ViewpointEffect(phase, cy, newVps, connectivityCheckTimeoutId)

\* SettingsPanel.handleAdd / handleToggleViewpoint(host, true), with the
\* synchronous part of handleAddViewpoint.
AddViewpoint(h) ==
    /\ ~authEffectDirty
    /\ vpEdits < MaxVpEdits
    /\ h \in Hosts
    /\ ~Contains(viewpointServers, h)
    /\ LET needFetch == h \notin ExistingHosts(allFederations)
       IN /\ needFetch => fetchesIssued < MaxFetches
          /\ fetches' = IF needFetch
                        THEN Append(fetches, [host |-> h, cause |-> {"user"}])
                        ELSE fetches
          /\ fetchesIssued' = fetchesIssued + (IF needFetch THEN 1 ELSE 0)
    /\ vpEdits' = vpEdits + 1
    /\ PropsUpdate(allFederations, Append(viewpointServers, h))
    /\ authEffectDirty' = (authUser # NoHost)
    /\ authEffectCause' = IF authUser # NoHost THEN {"viewpoints"} ELSE {}
    /\ UNCHANGED <<cytoscapePromise, edgeVisibility, panVars, focusVars, probeLog,
                   servers, privateServers, authUser, selVars, phase, hasHeight,
                   instances, isInitialized, isLayoutRunning, retryTimers,
                   initGraphAwaiting, probes, connectivityResults, lastProbe>>

\* handleToggleViewpoint(host, false): remove a viewpoint, keeping at least one.
RemoveViewpoint(h) ==
    /\ ~authEffectDirty
    /\ vpEdits < MaxVpEdits
    /\ Contains(viewpointServers, h)
    /\ Len(viewpointServers) > 1
    /\ vpEdits' = vpEdits + 1
    /\ PropsUpdate(allFederations, SelectSeq(viewpointServers, LAMBDA x : x # h))
    /\ authEffectDirty' = (authUser # NoHost)
    /\ authEffectCause' = IF authUser # NoHost THEN {"viewpoints"} ELSE {}
    /\ UNCHANGED <<cytoscapePromise, edgeVisibility, panVars, focusVars, probeLog, servers, fetches, fetchesIssued, privateServers, authUser,
                   selVars, phase, hasHeight, instances, isInitialized,
                   isLayoutRunning, retryTimers, initGraphAwaiting, probes,
                   connectivityResults, lastProbe>>

\* The response of fetch i arrives: the rest of fetchSeedFederations and the
\* merge done by its caller.
FetchComplete(i, answer) ==
    /\ ~authEffectDirty
    /\ i \in 1..Len(fetches)
    /\ answer \in ServerAnswers(fetches[i].host, authUser)
    /\ LET h == fetches[i].host
           unmark == answer = "okAuthenticated" /\ h \in privateServers
           feds == IF answer \in {"ok", "okAuthenticated"}
                   THEN FetchedFederations(h) ELSE <<>>
           newAll == MergeFederations(allFederations, feds)
           cause == (IF answer = "CREDENTIAL_REQUIRED"
                     THEN {"CREDENTIAL_REQUIRED"} ELSE {})
                    \cup (IF unmark THEN {"authenticated"} ELSE {})
                    \cup (IF newAll # allFederations
                             /\ authUser \notin privateServers
                          THEN {"federations"} ELSE {})
       IN /\ privateServers' =
                IF answer = "CREDENTIAL_REQUIRED" THEN privateServers \cup {h}
                ELSE IF unmark THEN privateServers \ {h}
                ELSE privateServers
          /\ PropsUpdate(newAll, viewpointServers)
          /\ authEffectDirty' = (authUser # NoHost /\ cause # {})
          /\ authEffectCause' = IF authUser # NoHost THEN cause ELSE {}
    /\ fetches' = RemoveAt(fetches, i)
    /\ UNCHANGED <<cytoscapePromise, edgeVisibility, panVars, focusVars, probeLog, servers, fetchesIssued, authUser, vpEdits, selVars, phase,
                   hasHeight, instances, isInitialized, isLayoutRunning,
                   retryTimers, initGraphAwaiting, probes, connectivityResults,
                   lastProbe>>

RECURSIVE CatalogFrom(_, _)
\* The catalog (servers prop) listing the hosts of S, in universe order.
CatalogFrom(S, i) ==
    IF i > Len(HostUniverse) THEN <<>>
    ELSE (IF HostUniverse[i] \in S THEN <<[host |-> HostUniverse[i], usersCount |-> NoCount]>>
          ELSE <<>>)
         \o CatalogFrom(S, i + 1)

CatalogOf(S) == CatalogFrom(S, 1)

\* The filter panel changes the filter: filteredServers() now lists the hosts
\* of S, and the $effect on servers/federations runs.
FilterChange(S) ==
    /\ S # {}
    /\ CatalogOf(S) # servers
    /\ servers' = CatalogOf(S)
    /\ DataEffect(phase, CatalogOf(S), federations, initGraphTimeoutId,
                  prevServersLength, prevFederationHash)
    /\ UNCHANGED <<cytoscapePromise, edgeVisibility, panVars, focusVars, probeLog, allFederations, viewpointServers, fetches,
                   fetchesIssued, privateServers, authUser, authEffectDirty,
                   authEffectCause, vpEdits, selVars, phase, hasHeight, cy,
                   instances, isInitialized, isLayoutRunning,
                   connectivityCheckTimeoutId, retryTimers, initGraphAwaiting,
                   probes, connectivityResults, prevViewpointHash, lastProbe>>

\* The MiAuth login completes: authState becomes logged in on host h.
Login(h) ==
    /\ ~authEffectDirty
    /\ authUser = NoHost
    /\ h \in Hosts
    /\ authUser' = h
    /\ authEffectDirty' = TRUE
    /\ authEffectCause' = {"login"}
    /\ UNCHANGED <<cytoscapePromise, edgeVisibility, panVars, focusVars, probeLog, servers, allFederations, viewpointServers, fetches,
                   fetchesIssued, privateServers, vpEdits, graphVars, selVars>>

\* One run of the $effect that follows the auth state.
AuthEffect ==
    /\ authEffectDirty
    /\ authUser # NoHost
    /\ LET newVps == IF Contains(viewpointServers, authUser) THEN viewpointServers
                     ELSE <<authUser>> \o viewpointServers
           issue == authUser \in privateServers
                    \/ authUser \notin ExistingHosts(allFederations)
       IN /\ issue => fetchesIssued < MaxFetches
          /\ fetches' = IF issue
                        THEN Append(fetches, [host |-> authUser,
                                              cause |-> authEffectCause])
                        ELSE fetches
          /\ fetchesIssued' = fetchesIssued + (IF issue THEN 1 ELSE 0)
          /\ PropsUpdate(allFederations, newVps)
          /\ authEffectDirty' = (newVps # viewpointServers)
          /\ authEffectCause' = IF newVps # viewpointServers
                                THEN {"viewpoints"} ELSE {}
    /\ UNCHANGED <<cytoscapePromise, edgeVisibility, panVars, focusVars, probeLog, servers, privateServers, authUser, vpEdits, selVars, phase,
                   hasHeight, instances, isInitialized, isLayoutRunning,
                   retryTimers, initGraphAwaiting, probes, connectivityResults,
                   lastProbe>>

\* ------------------------------------------------------------------------
\* Selection handlers
\* ------------------------------------------------------------------------
Emit(type, host) == [type |-> type, host |-> host]

\* One handled tap, as tapLog keeps it.
Tap(target, edge, before, after, itemBefore, events) ==
    [target |-> target, edge |-> edge, before |-> before, after |-> after,
     itemBefore |-> itemBefore, events |-> events]

\* The node tap handler without the same-node branch: every tap selects.
TapNodeAlwaysSelects(h) ==
    /\ phase = "mounted"
    /\ cy.live
    /\ h \in NodeIds(cy)
    /\ Len(tapLog) < MaxTaps
    /\ selectedNode' = h
    /\ selectedItem' = [type |-> "node", value |-> h]
    /\ highlighted' =
           HighlightNode(IF selectedNode # NoHost
                         THEN UnhighlightNode(highlighted, cy, selectedNode)
                         ELSE highlighted, cy, h)
    /\ tapLog' = Append(tapLog,
           Tap(h, NoHost, selectedNode, h, selectedItem,
               <<Emit("onSelectServer", h)>>))
    /\ tooltip' = Tooltip("node", h)
    /\ UNCHANGED <<cytoscapePromise, edgeVisibility, panVars, focusVars, pageVars, graphVars>>

\* cyInstance.on('tap', 'node', ...) with the page's handleSelectServer.
TapNode(h) ==
    /\ phase = "mounted"
    /\ cy.live
    /\ h \in NodeIds(cy)
    /\ Len(tapLog) < MaxTaps
    /\ IF selectedNode # NoHost /\ selectedNode = h
       THEN /\ selectedNode' = NoHost
            /\ selectedItem' = NoItem
            /\ highlighted' = UnhighlightNode(highlighted, cy, h)
            /\ tapLog' = Append(tapLog,
                   Tap(h, NoHost, selectedNode, NoHost, selectedItem,
                       <<Emit("window.open", h),
                         Emit("onSelectServer", NoHost)>>))
       ELSE /\ selectedNode' = h
            /\ selectedItem' = [type |-> "node", value |-> h]
            /\ highlighted' =
                   HighlightNode(IF selectedNode # NoHost
                                 THEN UnhighlightNode(highlighted, cy,
                                                      selectedNode)
                                 ELSE highlighted, cy, h)
            /\ tapLog' = Append(tapLog,
                   Tap(h, NoHost, selectedNode, h, selectedItem,
                       <<Emit("onSelectServer", h)>>))
    /\ tooltip' = IF selectedNode # NoHost /\ selectedNode = h
                   THEN HideTooltip(tooltip) ELSE Tooltip("node", h)
    /\ UNCHANGED <<cytoscapePromise, edgeVisibility, panVars, focusVars, pageVars, graphVars>>

\* The edge tap handler toggling: a tap on the edge that is selected clears
\* the selection.
TapEdgeToggles(e) ==
    /\ phase = "mounted"
    /\ cy.live
    /\ e \in EdgesOf(cy)
    /\ Len(tapLog) < MaxTaps
    /\ selectedNode' = NoHost
    /\ highlighted' = IF selectedNode # NoHost
                      THEN UnhighlightNode(highlighted, cy, selectedNode)
                      ELSE highlighted
    /\ IF selectedItem = HandleSelectEdge(e.source, e.target)
       THEN /\ selectedItem' = NoItem
            /\ tapLog' = Append(tapLog,
                   Tap(NoHost, e.id, selectedNode, NoHost, selectedItem,
                       <<Emit("onClearSelection", NoHost)>>))
       ELSE /\ selectedItem' = HandleSelectEdge(e.source, e.target)
            /\ tapLog' = Append(tapLog,
                   Tap(NoHost, e.id, selectedNode, NoHost, selectedItem,
                       <<Emit("onSelectEdge", e.source),
                         Emit("onSelectEdge", e.target)>>))
    /\ tooltip' = Tooltip("edge", e.id)
    /\ UNCHANGED <<cytoscapePromise, edgeVisibility, panVars, focusVars, pageVars, graphVars>>

\* cyInstance.on('tap', 'edge', ...) with the page's handleSelectEdge.  The
\* handler sets no style on the tapped edge.
TapEdge(e) ==
    /\ phase = "mounted"
    /\ cy.live
    /\ e \in EdgesOf(cy)
    /\ Len(tapLog) < MaxTaps
    /\ selectedNode' = NoHost
    /\ selectedItem' = HandleSelectEdge(e.source, e.target)
    /\ highlighted' = IF selectedNode # NoHost
                      THEN UnhighlightNode(highlighted, cy, selectedNode)
                      ELSE highlighted
    /\ tapLog' = Append(tapLog,
           Tap(NoHost, e.id, selectedNode, NoHost, selectedItem,
               <<Emit("onSelectEdge", e.source),
                 Emit("onSelectEdge", e.target)>>))
    /\ tooltip' = Tooltip("edge", e.id)
    /\ UNCHANGED <<cytoscapePromise, edgeVisibility, panVars, focusVars, pageVars, graphVars>>

\* The background tap handler notifying the page only when a node was
\* selected.
TapBackgroundOfNodeOnly ==
    /\ phase = "mounted"
    /\ cy.live
    /\ Len(tapLog) < MaxTaps
    /\ selectedNode' = NoHost
    /\ selectedItem' = IF selectedNode # NoHost THEN NoItem ELSE selectedItem
    /\ highlighted' = IF selectedNode # NoHost
                      THEN UnhighlightNode(highlighted, cy, selectedNode)
                      ELSE highlighted
    /\ tapLog' = Append(tapLog,
           Tap(NoHost, NoHost, selectedNode, NoHost, selectedItem,
               IF selectedNode # NoHost
               THEN <<Emit("onClearSelection", NoHost)>> ELSE <<>>))
    /\ tooltip' = HideTooltip(tooltip)
    /\ UNCHANGED <<cytoscapePromise, edgeVisibility, panVars, focusVars, pageVars, graphVars>>

\* cyInstance.on('tap', ...) on the background with handleClearSelection.
TapBackground ==
    /\ phase = "mounted"
    /\ cy.live
    /\ Len(tapLog) < MaxTaps
    /\ selectedNode' = NoHost
    /\ selectedItem' = NoItem
    /\ highlighted' = IF selectedNode # NoHost
                      THEN UnhighlightNode(highlighted, cy, selectedNode)
                      ELSE highlighted
    /\ tapLog' = Append(tapLog,
           Tap(NoHost, NoHost, selectedNode, NoHost, selectedItem,
               <<Emit("onClearSelection", NoHost)>>))
    /\ tooltip' = HideTooltip(tooltip)
    /\ UNCHANGED <<cytoscapePromise, edgeVisibility, panVars, focusVars, pageVars, graphVars>>

\* ------------------------------------------------------------------------
\* Hovering
\* ------------------------------------------------------------------------
\* cyInstance.on('mouseover', 'node', ...)
MouseOverNode(h) ==
    /\ phase = "mounted"
    /\ cy.live
    /\ h \in NodeIds(cy)
    /\ highlighted' = IF selectedNode = NoHost \/ selectedNode # h
                      THEN HighlightNode(highlighted, cy, h)
                      ELSE highlighted
    /\ tooltip' = Tooltip("node", h)
    /\ UNCHANGED <<cytoscapePromise, selectedNode, selectedItem, tapLog>>
    /\ UNCHANGED <<cytoscapePromise, edgeVisibility, panVars, focusVars, pageVars, graphVars>>

\* The mouseout handler of nodes resetting whatever node is left.
MouseOutNodeAlwaysUnhighlights(h) ==
    /\ phase = "mounted"
    /\ cy.live
    /\ h \in NodeIds(cy)
    /\ highlighted' = UnhighlightNode(highlighted, cy, h)
    /\ tooltip' = HideTooltip(tooltip)
    /\ UNCHANGED <<cytoscapePromise, selectedNode, selectedItem, tapLog>>
    /\ UNCHANGED <<cytoscapePromise, edgeVisibility, panVars, focusVars, pageVars, graphVars>>

\* cyInstance.on('mouseout', 'node', ...)
MouseOutNode(h) ==
    /\ phase = "mounted"
    /\ cy.live
    /\ h \in NodeIds(cy)
    /\ highlighted' = IF selectedNode = NoHost \/ selectedNode # h
                      THEN UnhighlightNode(highlighted, cy, h)
                      ELSE highlighted
    /\ tooltip' = HideTooltip(tooltip)
    /\ UNCHANGED <<cytoscapePromise, selectedNode, selectedItem, tapLog>>
    /\ UNCHANGED <<cytoscapePromise, edgeVisibility, panVars, focusVars, pageVars, graphVars>>

\* cyInstance.on('mouseover', 'edge', ...): the tooltip at the middle of the
\* edge, and the edge drawn white and opaque.
MouseOverEdge(e) ==
    /\ phase = "mounted"
    /\ cy.live
    /\ e \in EdgesOf(cy)
    /\ highlighted' = [highlighted EXCEPT !.edges = @ \cup {e.id}]
    /\ tooltip' = Tooltip("edge", e.id)
    /\ UNCHANGED <<cytoscapePromise, selectedNode, selectedItem, tapLog>>
    /\ UNCHANGED <<cytoscapePromise, edgeVisibility, panVars, focusVars, pageVars, graphVars>>

\* cyInstance.on('mouseout', 'edge', ...): the edge gets its own colour and
\* opacity back.
MouseOutEdge(e) ==
    /\ phase = "mounted"
    /\ cy.live
    /\ e \in EdgesOf(cy)
    /\ highlighted' = [highlighted EXCEPT !.edges = @ \ {e.id}]
    /\ tooltip' = HideTooltip(tooltip)
    /\ UNCHANGED <<cytoscapePromise, selectedNode, selectedItem, tapLog>>
    /\ UNCHANGED <<cytoscapePromise, edgeVisibility, panVars, focusVars, pageVars, graphVars>>

\* ------------------------------------------------------------------------
\* Focus requests, the focus timers and the clock
\* ------------------------------------------------------------------------
otherVars == <<pageVars, graphVars, selVars>>

\* handleFocusViewpoint(h): focusHost = h, then the $effect on focusHost when
\* the value changed.
FocusRequest(h) ==
    /\ phase # "destroyed"
    /\ focusLog.requests < MaxFocus
    /\ focusHost' = h
    /\ IF h # focusHost
       THEN FocusEffect(phase, cy, h, timers)
       ELSE UNCHANGED <<prevFocusHost, focusTimeoutId, timers, timerSeq>>
    /\ focusLog' = [focusLog EXCEPT !.requestHost = h, !.requestAt = now,
                                    !.requests = @ + 1]
    /\ UNCHANGED <<cytoscapePromise, edgeVisibility, panVars, focusHighlightTimeout, currentFocusedNode, focusHighlighted,
                   now, otherVars>>

\* The delay timer of the $effect fires.
FocusTimeoutFire ==
    \E t \in timers :
      /\ t.kind = "focus"
      /\ t.due <= now
      /\ focusTimeoutId' = NoTimer
      /\ FocusOnNode(t.host, timers \ {t})
      /\ UNCHANGED <<cytoscapePromise, edgeVisibility, panVars, focusHost, prevFocusHost, now,
                     pageVars, graphVars, selectedNode, selectedItem, tapLog,
                     tooltip>>

\* The expiry timer of focusOnNode fires.
FocusHighlightTimeoutFire ==
    \E t \in timers :
      /\ t.kind = "highlight"
      /\ t.due <= now
      /\ timers' = timers \ {t}
      /\ focusHighlighted' =
             ClearFocusHighlight(focusHighlighted, cy,
                                 [id |-> t.host, stale |-> t.stale])
      /\ highlighted' =
             ClearFocusResets(highlighted, cy,
                              [id |-> t.host, stale |-> t.stale])
      /\ currentFocusedNode' = NoNode
      /\ UNCHANGED <<cytoscapePromise, edgeVisibility, panVars, focusHost, prevFocusHost, focusTimeoutId,
                     focusHighlightTimeout, timerSeq, now, focusLog,
                     pageVars, graphVars, selectedNode, selectedItem, tapLog,
                     tooltip>>

\* Time passes, up to the next timer that is due.
Advance(d) ==
    /\ d > 0
    /\ now + d <= MaxTime
    /\ \A t \in timers : now + d <= t.due
    /\ now' = now + d
    /\ UNCHANGED <<cytoscapePromise, edgeVisibility, panVars, focusHost, prevFocusHost, focusTimeoutId,
                   focusHighlightTimeout, currentFocusedNode, focusHighlighted,
                   timers, timerSeq, focusLog, otherVars>>

\* ------------------------------------------------------------------------
\* Edge visibility
\* ------------------------------------------------------------------------
\* The filter panel changes filter.edgeVisibility: the prop changes and the
\* $effect on it runs.
EdgeVisibilityChange(flags) ==
    /\ phase = "mounted"
    /\ flags # edgeVisibility
    /\ edgeVisibility' = flags
    /\ cy' = EdgeVisibilityEffect(phase, cy, flags)
    /\ UNCHANGED <<cytoscapePromise, pageVars, phase, hasHeight, instances, isInitialized,
                   isLayoutRunning, initGraphTimeoutId,
                   connectivityCheckTimeoutId, retryTimers, initGraphAwaiting,
                   probes, connectivityResults, prevServersLength,
                   prevFederationHash, prevViewpointHash, lastProbe, probeLog,
                   selVars, focusVars, panVars>>

\* ------------------------------------------------------------------------
\* Drags and inertia frames
\* ------------------------------------------------------------------------
nonPanVars ==
    <<cytoscapePromise, edgeVisibility, pageVars, graphVars, selVars, focusVars>>

\* Are the container's pan listeners of initGraph registered?
PanListening == phase = "mounted" /\ cy.live

\* handleMousedown (left button) and handleTouchstart.
DragStart ==
    /\ PanListening
    /\ panLog.drags < MaxDrags
    /\ isPanning' = TRUE
    /\ StopInertia
    /\ panLog' = [drags |-> panLog.drags + 1, steps |-> 0,
                  released |-> FALSE, interrupted |-> inertiaFrames > 0]
    /\ UNCHANGED nonPanVars

\* The 'grab' handler of the instance.
Grab ==
    /\ PanListening
    /\ panLog.drags < MaxDrags
    /\ StopInertia
    /\ panLog' = [drags |-> panLog.drags + 1, steps |-> 0,
                  released |-> FALSE, interrupted |-> inertiaFrames > 0]
    /\ UNCHANGED <<isPanning, nonPanVars>>

\* The throttled frame of the viewport handler while the pointer drags the
\* graph by delta.
ViewportFrame(delta) ==
    /\ PanListening
    /\ isPanning
    /\ delta # panVelocity
    /\ panVelocity' = delta
    /\ UNCHANGED <<isPanning, inertiaAnimationId, inertiaFrames, panLog,
                   nonPanVars>>

\* handlePanEnd: mouseup, mouseleave, touchend.
PanEnd ==
    /\ PanListening
    /\ isPanning
    /\ isPanning' = FALSE
    /\ IF Abs(panVelocity.x) > MIN_VELOCITY \/ Abs(panVelocity.y) > MIN_VELOCITY
       THEN /\ inertiaAnimationId' = TRUE
            /\ inertiaFrames' = inertiaFrames + 1
       ELSE UNCHANGED <<inertiaAnimationId, inertiaFrames>>
    /\ panLog' = [panLog EXCEPT !.released = TRUE]
    /\ UNCHANGED <<panVelocity, nonPanVars>>

\* A requested animation frame runs applyInertia.
InertiaFrame ==
    /\ inertiaFrames > 0
    /\ IF ~cy.live
       THEN /\ inertiaFrames' = inertiaFrames - 1
            /\ UNCHANGED <<panVelocity, inertiaAnimationId, panLog>>
       ELSE IF Abs(panVelocity.x) < MIN_VELOCITY
               /\ Abs(panVelocity.y) < MIN_VELOCITY
       THEN /\ inertiaFrames' = inertiaFrames - 1
            /\ inertiaAnimationId' = FALSE
            /\ panVelocity' = ZeroVelocity
            /\ panLog' = panLog
       ELSE /\ panVelocity' = [x |-> Decay(panVelocity.x),
                               y |-> Decay(panVelocity.y)]
            /\ panLog' = [panLog EXCEPT !.steps = @ + 1]
            /\ inertiaAnimationId' = TRUE
            /\ inertiaFrames' = inertiaFrames
    /\ UNCHANGED <<isPanning, nonPanVars>>

\* ------------------------------------------------------------------------
\* Initial states and specifications
\* ------------------------------------------------------------------------
\* State of the component and of the page right after construction, for the
\* given props.
InitWithSelection(srv, all, vps, height, select) ==
    /\ servers = srv
    /\ allFederations = all
    /\ viewpointServers = vps
    /\ fetches = <<>>
    /\ fetchesIssued = 0
    /\ privateServers = {}
    /\ authUser = NoHost
    /\ authEffectDirty = FALSE
    /\ authEffectCause = {}
    /\ vpEdits = 0
    /\ selectedItem = select
    /\ phase = "created"
    /\ hasHeight = height
    /\ cy = NoCy
    /\ instances = 0
    /\ isInitialized = FALSE
    /\ isLayoutRunning = FALSE
    /\ initGraphTimeoutId = FALSE
    /\ connectivityCheckTimeoutId = FALSE
    /\ retryTimers = 0
    /\ initGraphAwaiting = 0
    /\ probes = <<>>
    /\ connectivityResults = <<>>
    /\ prevServersLength = 0
    /\ prevFederationHash = EmptyHash
    /\ prevViewpointHash = EmptyHash
    /\ lastProbe = NoProbe
    /\ probeLog = <<>>
    /\ selectedNode = NoHost
    /\ tapLog = <<>>
    /\ highlighted = NoHighlight
    /\ tooltip = NoTooltip
    /\ cytoscapePromise = "none"
    /\ focusHost = NoHost
    /\ prevFocusHost = NoHost
    /\ focusTimeoutId = NoTimer
    /\ focusHighlightTimeout = NoTimer
    /\ currentFocusedNode = NoNode
    /\ focusHighlighted = {}
    /\ timers = {}
    /\ timerSeq = 0
    /\ now = 0
    /\ focusLog = [requestHost |-> NoHost, requestAt |-> 0, requests |-> 0,
                   appliedHost |-> NoHost, appliedAt |-> 0]
    /\ edgeVisibility = DefaultEdgeVisibility
    /\ panVelocity = ZeroVelocity
    /\ isPanning = FALSE
    /\ inertiaAnimationId = FALSE
    /\ inertiaFrames = 0
    /\ panLog = [drags |-> 0, steps |-> 0, released |-> TRUE,
                 interrupted |-> FALSE]

\* The same, the URL carrying no select parameter.
InitWith(srv, all, vps, height) ==
    InitWithSelection(srv, all, vps, height, NoItem)

\* Life cycle of the graph component inside the page.
Init ==
    \E height \in BOOLEAN :
      \E vps \in {DefaultViewpoints, Append(DefaultViewpoints, HostUniverse[2])} :
        InitWith(CatalogOf(Hosts), LoadedFederations, vps, height)

Next ==
    \/ OnMount
    \/ \E h \in BOOLEAN : Resize(h)
    \/ DebouncedInitGraphFire
    \/ RetryTimerFire
    \/ \E bound \in BOOLEAN : InitGraphResume(bound)
    \/ ConnectivityTimerFire
    \/ \E i \in 1..Len(probes) :
          \E down \in Range(probes[i].viewpoints) \cup {NoHost} :
              ProbeComplete(i, BatchAnswers(ViewpointPairs(probes[i].viewpoints),
                                            down))
    \/ \E h \in Hosts : phase = "mounted" /\ AddViewpoint(h)
    \/ \E h \in Hosts : phase = "mounted" /\ RemoveViewpoint(h)
    \/ \E i \in 1..Len(fetches) :
          \E answer \in {"ok", "failed", "CREDENTIAL_REQUIRED"} :
              phase = "mounted" /\ FetchComplete(i, answer)
    \/ Teardown

Spec == Init /\ [][Next]_vars

\* Graph build over drawn federation data.
ObservationKinds ==
    {[u |-> 0, n |-> 0, b |-> FALSE, sus |-> FALSE],
     [u |-> 0, n |-> 5, b |-> FALSE, sus |-> FALSE],
     [u |-> 2, n |-> 0, b |-> FALSE, sus |-> FALSE],
     [u |-> 0, n |-> 0, b |-> TRUE, sus |-> FALSE],
     [u |-> 0, n |-> 0, b |-> FALSE, sus |-> TRUE]}

Observations(sources) ==
    {Federation(s, t, k.u, k.n, k.b, k.sus) :
        s \in sources, t \in Hosts, k \in ObservationKinds}

\* allFederations holds one observation per `${sourceHost}-${targetHost}` key.
KeysDistinct(feds) ==
    \A i, j \in 1..Len(feds) :
        FederationKeys(feds)[i] = FederationKeys(feds)[j] => i = j

InitBuild ==
    \E vps \in {<<HostUniverse[1]>>, DefaultViewpoints} :
      \E srv \in {CatalogOf(Hosts), CatalogOf(Hosts \ {HostUniverse[NumHosts]})} :
        \E all \in BoundedSeq(Observations(Range(vps)), MaxObs) :
            /\ KeysDistinct(all)
            /\ InitWith(srv, all, vps, TRUE)

NextBuild ==
    \/ OnMount
    \/ InitGraphResume(TRUE)

SpecBuild == InitBuild /\ [][NextBuild]_vars

\* Graph build over drawn normal observations with activity, among three
\* viewpoints.
ActiveKinds == {k \in ObservationKinds : ~k.b /\ ~k.sus /\ k.u + k.n > 0}

ActiveObservations(sources) ==
    {Federation(s, t, k.u, k.n, k.b, k.sus) :
        s \in sources, t \in Hosts, k \in ActiveKinds}

InitDedup ==
    LET vps == <<HostUniverse[2], HostUniverse[3], HostUniverse[4]>>
    IN \E all \in BoundedSeq(ActiveObservations(Range(vps)), MaxPairObs) :
          /\ KeysDistinct(all)
          /\ InitWith(CatalogOf(Hosts), all, vps, TRUE)

SpecDedup == InitDedup /\ [][NextBuild]_vars

\* Node selection on a built graph.
InitSel == InitWith(CatalogOf(Hosts), LoadedFederations, DefaultViewpoints, TRUE)

NextSel ==
    \/ OnMount
    \/ InitGraphResume(TRUE)
    \/ \E h \in Hosts : TapNode(h)
    \/ TapBackground

SpecSel == InitSel /\ [][NextSel]_vars

\* A deployment whose delivered federation data has two activity edges from
\* one viewpoint.
LinkFederations ==
    <<Federation(HostUniverse[3], HostUniverse[1], 2, 5, FALSE, FALSE),
      Federation(HostUniverse[3], HostUniverse[4], 1, 0, FALSE, FALSE)>>

\* The select parameters the page is opened with: none, a node of the graph,
\* a host that is no node, an edge in stored and in reverse order, and a
\* pair of hosts without an edge.
SelectQueries ==
    {<<>>, HostUniverse[1], HostUniverse[4], HostUniverse[NumHosts + 1],
     SelectValue(HostUniverse[1], HostUniverse[3]),
     SelectValue(HostUniverse[4], HostUniverse[3]),
     SelectValue(HostUniverse[1], HostUniverse[4])}

\* Selection on a graph opened from a deep link.
InitLink ==
    \E all \in {LoadedFederations, LinkFederations} :
      \E select \in SelectQueries :
        InitWithSelection(CatalogOf(Hosts), all, DefaultViewpoints, TRUE,
                          ParseSelectFromQuery(select))

NextLink ==
    \/ OnMount
    \/ InitGraphResume(TRUE)
    \/ \E h \in Hosts : TapNode(h)
    \/ \E e \in EdgesOf(cy) : TapEdge(e)
    \/ TapBackground

SpecLink == InitLink /\ [][NextLink]_vars

\* Pointer events on a built graph: taps and hovering.
HoverEvent ==
    \/ \E h \in Hosts : MouseOverNode(h)
    \/ \E h \in Hosts : MouseOutNode(h)
    \/ \E e \in EdgesOf(cy) : MouseOverEdge(e)
    \/ \E e \in EdgesOf(cy) : MouseOutEdge(e)

MaxPointerTaps == 2

NextHover ==
    \/ OnMount
    \/ InitGraphResume(TRUE)
    \/ \E h \in Hosts : Len(tapLog) < MaxPointerTaps /\ TapNode(h)
    \/ \E h \in Hosts : MouseOverNode(h)
    \/ \E h \in Hosts : MouseOutNode(h)
    \/ \E e \in EdgesOf(cy) : MouseOverEdge(e)
    \/ \E e \in EdgesOf(cy) : MouseOutEdge(e)

SpecHover == InitSel /\ [][NextHover]_vars

\* Focus requests on a built graph, with a rebuild after a viewpoint edit.
InitFocus == InitWith(CatalogOf(Hosts), LoadedFederations, DefaultViewpoints,
                      TRUE)

NextFocus ==
    \/ OnMount
    \/ InitGraphResume(TRUE)
    \/ \E h \in Hosts : FocusRequest(h)
    \/ FocusTimeoutFire
    \/ FocusHighlightTimeoutFire
    \/ \E d \in {TimeStep} \cup {t.due - now : t \in timers} : Advance(d)
    \/ \E h \in Hosts : phase = "mounted" /\ RemoveViewpoint(h)
    \/ DebouncedInitGraphFire

SpecFocus == InitFocus /\ [][NextFocus]_vars

\* Focus requests and taps on a built graph.
FocusStep ==
    \/ \E h \in Hosts : FocusRequest(h)
    \/ FocusTimeoutFire
    \/ FocusHighlightTimeoutFire

TapStep ==
    \/ \E h \in Hosts : TapNode(h)
    \/ \E e \in EdgesOf(cy) : TapEdge(e)
    \/ TapBackground

NextFocusTap ==
    \/ OnMount
    \/ InitGraphResume(TRUE)
    \/ \E h \in Hosts : FocusRequest(h)
    \/ FocusTimeoutFire
    \/ FocusHighlightTimeoutFire
    \/ \E d \in {t.due - now : t \in timers} : Advance(d)
    \/ \E h \in Hosts : Len(tapLog) < MaxPointerTaps /\ TapNode(h)
    \/ \E e \in EdgesOf(cy) : Len(tapLog) < MaxPointerTaps /\ TapEdge(e)
    \/ Len(tapLog) < MaxPointerTaps /\ TapBackground

SpecFocusTap == InitFocus /\ [][NextFocusTap]_vars

\* Every combination of the five show flags.
EdgeVisibilities ==
    [{"showFederation", "showBlocked", "showSuspended", "showConnectivityOk",
      "showConnectivityNg"} -> BOOLEAN]

\* The edge-visibility settings changed on a built graph, with probes.
InitVis ==
    \E vps \in {DefaultViewpoints, Append(DefaultViewpoints, HostUniverse[4])} :
        InitWith(CatalogOf(Hosts), LoadedFederations, vps, TRUE)

NextVis ==
    \/ OnMount
    \/ InitGraphResume(TRUE)
    \/ \E flags \in EdgeVisibilities : EdgeVisibilityChange(flags)
    \/ ConnectivityTimerFire
    \/ \E i \in 1..Len(probes) :
          \E down \in Range(probes[i].viewpoints) \cup {NoHost} :
              ProbeComplete(i, BatchAnswers(ViewpointPairs(probes[i].viewpoints),
                                            down))

SpecVis == InitVis /\ [][NextVis]_vars

\* Viewpoints taken away from a built graph one of whose viewpoints, listed
\* in the catalog, has no federation data.
InitShrink ==
    \E vps \in {<<HostUniverse[1], HostUniverse[4]>>,
                 Append(DefaultViewpoints, HostUniverse[4])} :
        InitWith(CatalogOf(Hosts), LoadedFederations, vps, TRUE)

NextShrink ==
    \/ OnMount
    \/ InitGraphResume(TRUE)
    \/ DebouncedInitGraphFire
    \/ ConnectivityTimerFire
    \/ \E i \in 1..Len(probes) :
          \E down \in Range(probes[i].viewpoints) \cup {NoHost} :
              ProbeComplete(i, BatchAnswers(ViewpointPairs(probes[i].viewpoints),
                                            down))
    \/ \E h \in Hosts : phase = "mounted" /\ RemoveViewpoint(h)

SpecShrink == InitShrink /\ [][NextShrink]_vars

\* The usersCount values of the catalogs: null, 0, 9 and 999.
UserCounts == {NoCount, 0, 9, 999}

\* The catalog srv with the given usersCount per entry.
WithUserCounts(srv, counts) ==
    [i \in 1..Len(srv) |-> [srv[i] EXCEPT !.usersCount = counts[i]]]

\* Graph build over catalogs with drawn user counts.
InitSize ==
    \E vps \in {<<HostUniverse[1]>>, DefaultViewpoints} :
      \E srv \in {CatalogOf(Hosts), CatalogOf(Hosts \ {HostUniverse[1]})} :
        \E counts \in [1..Len(srv) -> UserCounts] :
            InitWith(WithUserCounts(srv, counts), LoadedFederations, vps, TRUE)

SpecSize == InitSize /\ [][NextBuild]_vars

\* Graph build with viewpoints that the catalog may not list.
NodeObservations(sources) ==
    {Federation(src, t, k.u, k.n, k.b, k.sus) :
        src \in sources, t \in Hosts,
        k \in {[u |-> 0, n |-> 0, b |-> FALSE, sus |-> FALSE],
                [u |-> 2, n |-> 0, b |-> FALSE, sus |-> FALSE],
                [u |-> 0, n |-> 0, b |-> TRUE, sus |-> FALSE]}}

InitNodes ==
    \E vps \in {<<HostUniverse[1]>>, DefaultViewpoints} :
      \E srv \in {CatalogOf(Hosts), CatalogOf(Hosts \ {HostUniverse[1]}),
                   CatalogOf({HostUniverse[3]})} :
        \E all \in BoundedSeq(NodeObservations(Range(vps)), MaxObs) :
            /\ KeysDistinct(all)
            /\ InitWith(srv, all, vps, TRUE)

SpecNodes == InitNodes /\ [][NextBuild]_vars

RECURSIVE TrimStart(_)
TrimStart(str) ==
    IF str # <<>> /\ Head(str) = " " THEN TrimStart(Tail(str)) ELSE str

RECURSIVE TrimEnd(_)
TrimEnd(str) ==
    IF str # <<>> /\ str[Len(str)] = " "
    THEN TrimEnd(SubSeq(str, 1, Len(str) - 1)) ELSE str

\* s.trim()
Trim(str) == TrimEnd(TrimStart(str))

\* parseViewpointsFromQuery: from is params.getAll('from'); <<>> stands for
\* null as well, the caller treating both alike.
ParseViewpointsFromQuery(from) ==
    LET trimmed == [i \in 1..Len(from) |-> Trim(from[i])]
    IN SelectSeq(trimmed, LAMBDA str : Len(str) > 0)

\* settings.viewpointServers after the page's first $effect, nothing being
\* saved in localStorage.
ViewpointsOnLoad(from) ==
    LET queryViewpoints == ParseViewpointsFromQuery(from)
    IN IF Len(queryViewpoints) > 0 THEN queryViewpoints ELSE DefaultViewpoints

\* The `from` parameters of the links the page is opened with.
FromQueries ==
    {<<>>,
     <<HostUniverse[1]>>,
     <<HostUniverse[3], HostUniverse[1]>>,
     <<HostUniverse[1], <<" ">>, <<" ">> \o HostUniverse[3]>>,
     <<HostUniverse[1], HostUniverse[1]>>,
     <<HostUniverse[1], HostUniverse[3], HostUniverse[1]>>,
     <<HostUniverse[1], HostUniverse[3], HostUniverse[2]>>}

\* What happens to the request of one pair.
BatchExchanges ==
    {Exchange("delivered", KnownResponse, KnownResponse),
     Exchange("delivered", KnownResponse, SlowResponse),
     Exchange("platformError", KnownResponse, KnownResponse),
     Exchange("rejected", KnownResponse, KnownResponse)}

\* Probe batches on a page opened with `from` parameters.
InitQuery ==
    \E from \in FromQueries :
        InitWith(CatalogOf(Hosts), LoadedFederations, ViewpointsOnLoad(from),
                 TRUE)

NextQuery ==
    \/ OnMount
    \/ InitGraphResume(TRUE)
    \/ ConnectivityTimerFire
    \/ \E i \in 1..Len(probes) :
         \E exchanges \in [1..Len(ViewpointPairs(probes[i].viewpoints))
                             -> BatchExchanges] :
           ProbeComplete(i, exchanges)
    \/ \E h \in Hosts : phase = "mounted" /\ RemoveViewpoint(h)

SpecQuery == InitQuery /\ [][NextQuery]_vars

\* The pointer movements per frame that a drag can end with, in hundredths
\* of a pixel: none, below, at and above the threshold.
DragDeltas ==
    {[x |-> dx, y |-> dy] : dx \in {0, 30, MIN_VELOCITY, 80}, dy \in {0, 0 - 60}}

\* Drags and inertia on a built graph, with a rebuild and the teardown.
InitPan == InitWith(CatalogOf(Hosts), LoadedFederations, DefaultViewpoints,
                    TRUE)

NextPan ==
    \/ OnMount
    \/ InitGraphResume(TRUE)
    \/ DragStart
    \/ Grab
    \/ \E delta \in DragDeltas : ViewportFrame(delta)
    \/ PanEnd
    \/ InertiaFrame
    \/ \E h \in Hosts : phase = "mounted" /\ RemoveViewpoint(h)
    \/ DebouncedInitGraphFire
    \/ Teardown

SpecPan == InitPan /\ [][NextPan]_vars

\* The page before the graph is mounted: logins, viewpoint edits, fetches.
InitPage == InitWith(CatalogOf(Hosts), LoadedFederations, DefaultViewpoints, FALSE)

NextPage ==
    \/ \E h \in Hosts : Login(h)
    \/ AuthEffect
    \/ \E h \in Hosts : AddViewpoint(h)
    \/ \E h \in Hosts : RemoveViewpoint(h)
    \/ \E i \in 1..Len(fetches) :
          \E answer \in {"ok", "okAuthenticated", "failed", "CREDENTIAL_REQUIRED"} :
              FetchComplete(i, answer)

SpecPage == InitPage /\ [][NextPage]_vars

\* The prober alone: one pair of viewpoints, every kind of answer of the two
\* remote servers and every fate of the request to /api/connectivity.
ShowInstanceResponses ==
    {KnownResponse,
     SlowResponse,
     ShowInstanceResponse("answered", 100, 200, "none", TRUE, TRUE, FALSE),
     ShowInstanceResponse("answered", 100, 200, "none", TRUE, FALSE, TRUE),
     ShowInstanceResponse("answered", 100, 200, "none", TRUE, TRUE, TRUE),
     ShowInstanceResponse("answered", 100, 204, "none", FALSE, FALSE, FALSE),
     ShowInstanceResponse("answered", 100, 400, "NO_SUCH_OBJECT", TRUE, FALSE, FALSE),
     ShowInstanceResponse("answered", 100, 401, "CREDENTIAL_REQUIRED", TRUE, FALSE, FALSE),
     ShowInstanceResponse("answered", 100, 500, "INTERNAL_ERROR", TRUE, FALSE, FALSE),
     ShowInstanceResponse("answered", 100, 502, "none", FALSE, FALSE, FALSE),
     ShowInstanceResponse("failed", 100, 0, "none", FALSE, FALSE, FALSE)}

Transports == {"delivered", "platformError", "rejected"}

InitProbe ==
    \E vps \in {DefaultViewpoints, <<HostUniverse[3], HostUniverse[1]>>} :
        InitWith(CatalogOf(Hosts), LoadedFederations, vps, TRUE)

NextProbe ==
    \/ OnMount
    \/ InitGraphResume(TRUE)
    \/ ConnectivityTimerFire
    \/ \E i \in 1..Len(probes) :
         \E transport \in Transports :
           \E forwardRes, backwardRes \in ShowInstanceResponses :
             ProbeComplete(i, <<Exchange(transport, forwardRes, backwardRes)>>)

SpecProbe == InitProbe /\ [][NextProbe]_vars

\* The graph under changes of the catalog it is handed: the filter panel
\* selects which servers are listed.
InitData == InitWith(CatalogOf(Hosts), LoadedFederations, DefaultViewpoints, TRUE)

NextData ==
    \/ OnMount
    \/ DebouncedInitGraphFire
    \/ InitGraphResume(TRUE)
    \/ \E S \in SUBSET Hosts : phase = "mounted" /\ FilterChange(S)

SpecData == InitData /\ [][NextData]_vars

\* Snapshot changes on a graph whose library import may fail, with a
\* teardown.
NextImport ==
    \/ OnMount
    \/ DebouncedInitGraphFire
    \/ \E bound \in BOOLEAN : InitGraphResume(bound)
    \/ InitGraphReject
    \/ \E S \in SUBSET Hosts : phase = "mounted" /\ FilterChange(S)
    \/ Teardown

SpecImport == InitData /\ [][NextImport]_vars

\* ------------------------------------------------------------------------
\* Properties of the graph build
\* ------------------------------------------------------------------------
\* The observations the build draws activity edges from: normal, both hosts
\* allowed.
AllowedNormal ==
    SelectSeq(federations,
              LAMBDA f : /\ IsNormalFederation(f)
                         /\ HostAllowed(f.sourceHost, servers, federations)
                         /\ HostAllowed(f.targetHost, servers, federations))

HostPair(x, y) == {x, y}

\* The highest raw activity among the allowed normal observations of pair.
PairMaxActivity(pair) ==
    SetMax({Activity(AllowedNormal[i]) : i \in
              {k \in 1..Len(AllowedNormal) :
                  HostPair(AllowedNormal[k].sourceHost,
                           AllowedNormal[k].targetHost) = pair}})

\* C1: a built graph has at most one activity edge per unordered host pair,
\* and when two allowed normal observations of one pair differ in raw
\* activity, the pair's edge carries the weight computed from the highest
\* activity observed for the pair.
C1_Dedup ==
    cy.live =>
        LET raw == RawActivities(NormalFederations(federations), servers,
                                 federations)
        IN /\ \A i, j \in 1..Len(cy.edges) :
                 i # j => HostPair(cy.edges[i].source, cy.edges[i].target)
                          # HostPair(cy.edges[j].source, cy.edges[j].target)
           /\ \A i, j \in 1..Len(AllowedNormal) :
                 LET f == AllowedNormal[i]
                     g == AllowedNormal[j]
                     pair == HostPair(f.sourceHost, f.targetHost)
                 IN (pair = HostPair(g.sourceHost, g.targetHost)
                     /\ Activity(f) # Activity(g))
                    => \E k \in 1..Len(cy.edges) :
                          /\ HostPair(cy.edges[k].source, cy.edges[k].target) = pair
                          /\ cy.edges[k].weight =
                                EdgeWeight(PairMaxActivity(pair), MinActivity(raw),
                                           ActivityRange(raw))

\* C9: no edge of a built graph has source = target; an observation whose
\* sourceHost equals its targetHost yields neither an activity edge nor a
\* block relation.
C9_NoSelfLoop ==
    cy.live =>
        /\ \A i \in 1..Len(cy.edges) : cy.edges[i].source # cy.edges[i].target
        /\ \A i \in 1..Len(cy.blockedEdges) :
              cy.blockedEdges[i].source # cy.blockedEdges[i].target

\* C10: every activity edge of a graph built from a non-empty set of normal
\* observations has weight in [1, 30] (hundredths: 100..3000) and opacity in
\* [0.3, 0.9] (thousandths: 300..900).
C10_WeightRange ==
    (cy.live /\ Len(AllowedNormal) > 0) =>
        \A i \in 1..Len(cy.edges) :
            /\ cy.edges[i].weight >= 100 /\ cy.edges[i].weight <= 3000
            /\ cy.edges[i].opacity >= 300 /\ cy.edges[i].opacity <= 900

\* A built graph with two activity edges, one at the top of the weight range
\* and one strictly inside it.
C10_Witness ==
    /\ cy.live
    /\ \E i, j \in 1..Len(cy.edges) :
          /\ cy.edges[i].weight = 3000
          /\ cy.edges[j].weight > 100 /\ cy.edges[j].weight < 3000

\* ------------------------------------------------------------------------
\* Properties of the graph life cycle
\* ------------------------------------------------------------------------
\* The step completes probe batch i.
CompletesBatch(i) == i \in 1..Len(probes) /\ probes' = RemoveAt(probes, i)

\* Batch i was started for a viewpoint set other than the current one.
StaleBatch(i) == Range(probes[i].viewpoints) # Range(viewpointServers)

\* C2: every connectivity edge that the completion of a probe batch adds to
\* the live model is an edge connectivity-X-Y between two hosts X, Y of the
\* current viewpoint set; a batch started for {A,B} that completes after the
\* set became {A,C} adds no edge connectivity-A-B.
C2_StaleProbeDiscard ==
    [][\A i \in 1..Len(probes) :
          CompletesBatch(i) =>
              \A k \in 1..Len(cy'.connectivityEdges) :
                  LET e == cy'.connectivityEdges[k]
                  IN ~Contains(cy.connectivityEdges, e)
                     => /\ Contains(viewpointServers', e.source)
                        /\ Contains(viewpointServers', e.target)
                        /\ e.id = ConnectivityId(e.source, e.target)]_vars

\* A batch has completed after one of its hosts left the viewpoint set, on a
\* live graph that still shows two or more viewpoints, and edges were drawn
\* from its results.
C2_Witness ==
    /\ lastProbe.done /\ lastProbe.stale
    /\ \E h \in Range(lastProbe.viewpoints) : ~Contains(viewpointServers, h)
    /\ cy.live
    /\ Len(viewpointServers) >= 2
    /\ cy.connectivityEdges # <<>>

\* C3: the completion of a probe batch started for a viewpoint set other than
\* the current one changes neither the stored connectivity results nor the
\* connectivity edges of the live model.
C3_StaleCompletionDiscarded ==
    [][\A i \in 1..Len(probes) :
          (CompletesBatch(i) /\ StaleBatch(i)) =>
              /\ connectivityResults' = connectivityResults
              /\ cy'.connectivityEdges = cy.connectivityEdges]_vars

\* No rebuild is scheduled or in progress and no fetch is in flight.
Settled ==
    /\ ~initGraphTimeoutId
    /\ initGraphAwaiting = 0
    /\ retryTimers = 0
    /\ fetches = <<>>

C6_NoMutationAfterTeardown ==
    [][phase = "destroyed" =>
          UNCHANGED <<focusVars, connectivityResults, cy, instances,
                      connectivityCheckTimeoutId, initGraphTimeoutId>>]_vars

\* C7: at most one build is in progress and at most one undestroyed graph
\* instance exists.
C7_RebuildsNeverInterleave ==
    /\ initGraphAwaiting <= 1
    /\ instances <= 1

\* ------------------------------------------------------------------------
\* Properties of the selection handlers
\* ------------------------------------------------------------------------
\* The "selected" events for host h among events.
SelectedEvents(events, h) ==
    SelectSeq(events, LAMBDA e : e.type = "onSelectServer" /\ e.host = h)

\* The "selected" events for any host among events.
AnySelectedEvents(events) ==
    SelectSeq(events, LAMBDA e : e.type = "onSelectServer" /\ e.host # NoHost)

\* The "activate" events (open the server) among events.
ActivateEvents(events) == SelectSeq(events, LAMBDA e : e.type = "window.open")

\* C5: a tap on node h with nothing selected selects h, emits a "selected"
\* event for h and no "activate" event; a tap on h right after it returns to
\* the empty selection, emits exactly one "activate" event and no "selected"
\* event.
C5_TapTwice ==
    \A k \in 1..Len(tapLog) :
        LET first == tapLog[k]
        IN (first.target # NoHost /\ first.before = NoHost
            /\ first.itemBefore = NoItem)
           => /\ first.after = first.target
              /\ Len(SelectedEvents(first.events, first.target)) = 1
              /\ ActivateEvents(first.events) = <<>>
              /\ (k < Len(tapLog) /\ tapLog[k + 1].target = first.target)
                 => LET second == tapLog[k + 1]
                    IN /\ second.before = first.target
                       /\ second.after = NoHost
                       /\ ActivateEvents(second.events)
                            = <<Emit("window.open", first.target)>>
                       /\ AnySelectedEvents(second.events) = <<>>
                       /\ (k + 1 = Len(tapLog)
                           => selectedNode = NoHost /\ selectedItem = NoItem)

\* Some node was tapped twice in a row starting from the empty selection.
C5_Witness ==
    /\ Len(tapLog) = 2
    /\ tapLog[1].target # NoHost
    /\ tapLog[1].before = NoHost
    /\ tapLog[2].target = tapLog[1].target
    /\ selectedNode = NoHost

\* ------------------------------------------------------------------------
\* Properties of the page's automatic fetches
\* ------------------------------------------------------------------------
\* C8: no fetch is issued as a consequence of a CREDENTIAL_REQUIRED failure.
C8_NoRefetchAfterCredentialRequired ==
    \A i \in 1..Len(fetches) : "CREDENTIAL_REQUIRED" \notin fetches[i].cause

\* ------------------------------------------------------------------------
\* Properties of the weight normalisation
\* ------------------------------------------------------------------------
\* The highest raw activity among the allowed normal observations, in tenths.
TopActivity ==
    SetMax({Activity(AllowedNormal[i]) : i \in 1..Len(AllowedNormal)} \cup {0})

\* C11 as stated: a build that yields exactly one activity edge gives it
\* weight 30, whatever the raw activity of its observation.
C11_SingleEdgeWeight30 ==
    (cy.live /\ Len(cy.edges) = 1) => cy.edges[1].weight = 3000

\* C11 as amended: a build that yields exactly one activity edge gives it
\* weight 30 when the raw activity a of the edge is at least 1, and weight
\* 1 + 29 * sqrt(a) (rounded down to hundredths; 1 for a = 0) when a < 1.
C11_SingleEdgeWeight ==
    (cy.live /\ Len(cy.edges) = 1) =>
        LET w == cy.edges[1].weight - 100
        IN IF TopActivity >= 10 THEN w = 2900
           ELSE /\ w >= 0
                /\ 10 * w * w <= 2900 * 2900 * TopActivity
                /\ 10 * (w + 1) * (w + 1) > 2900 * 2900 * TopActivity

\* A built graph whose only activity edge has raw activity 0.5 and a weight
\* strictly between 1 and 30.
C11_Witness ==
    /\ cy.live
    /\ Len(cy.edges) = 1
    /\ TopActivity = 5
    /\ cy.edges[1].weight > 100 /\ cy.edges[1].weight < 3000

\* ------------------------------------------------------------------------
\* Properties of the block relation aggregation
\* ------------------------------------------------------------------------
\* The block/suspend observations the build draws block relations from.
AllowedBlocked ==
    SelectSeq(federations,
              LAMBDA f : /\ IsBlockedFederation(f)
                         /\ HostAllowed(f.sourceHost, servers, federations)
                         /\ HostAllowed(f.targetHost, servers, federations))

\* The observations of obs from host x to host y.
BlockedFromTo(obs, x, y) ==
    {i \in 1..Len(obs) : obs[i].sourceHost = x /\ obs[i].targetHost = y}

\* The positions of the block relations drawn between hosts x and y.
BlockRelationsOf(x, y) ==
    {i \in 1..Len(cy.blockedEdges) :
        HostPair(cy.blockedEdges[i].source, cy.blockedEdges[i].target)
            = HostPair(x, y)}

\* C12: in a built graph every pair of distinct hosts with a block or suspend
\* observation in either direction has exactly one block relation (and a
\* pair without one has none); its isBlocked and isSuspended are the OR of
\* the flags of the observations of both directions, and its isMutual is
\* true exactly when both directions were observed.
C12_BlockAggregation ==
    cy.live =>
        LET obs == AllowedBlocked
        IN /\ \A n \in 1..Len(cy.blockedEdges) :
                LET e == cy.blockedEdges[n]
                IN e.source # e.target
                     => BlockedFromTo(obs, e.source, e.target)
                          \cup BlockedFromTo(obs, e.target, e.source) # {}
           /\ \A k \in 1..Len(obs) :
                LET x == obs[k].sourceHost
                    y == obs[k].targetHost
                    fwd == BlockedFromTo(obs, x, y)
                    bwd == BlockedFromTo(obs, y, x)
                    rel == BlockRelationsOf(x, y)
                IN x # y =>
                     /\ Cardinality(rel) = 1
                     /\ \A i \in rel :
                          /\ cy.blockedEdges[i].isBlocked
                               = (\E j \in fwd \cup bwd : obs[j].isBlocked)
                          /\ cy.blockedEdges[i].isSuspended
                               = (\E j \in fwd \cup bwd : obs[j].isSuspended)
                          /\ cy.blockedEdges[i].isMutual = (bwd # {})

\* A built graph from [a->b blocked, b->a suspended]: one relation that is
\* blocked, suspended and mutual.
C12_Witness ==
    /\ cy.live
    /\ Len(cy.blockedEdges) = 1
    /\ \E j \in BlockedFromTo(AllowedBlocked, HostUniverse[1], HostUniverse[3]) :
           AllowedBlocked[j].isBlocked /\ ~AllowedBlocked[j].isSuspended
    /\ \E j \in BlockedFromTo(AllowedBlocked, HostUniverse[3], HostUniverse[1]) :
           AllowedBlocked[j].isSuspended /\ ~AllowedBlocked[j].isBlocked
    /\ cy.blockedEdges[1].isBlocked
    /\ cy.blockedEdges[1].isSuspended
    /\ cy.blockedEdges[1].isMutual

\* A built graph with a block observed in one direction only: the relation is
\* not mutual.
C12_WitnessOneWay ==
    /\ cy.live
    /\ Len(cy.blockedEdges) = 1
    /\ BlockedFromTo(AllowedBlocked, HostUniverse[1], HostUniverse[3]) # {}
    /\ BlockedFromTo(AllowedBlocked, HostUniverse[3], HostUniverse[1]) = {}
    /\ ~cy.blockedEdges[1].isMutual

\* ------------------------------------------------------------------------
\* Properties of the connectivity prober
\* ------------------------------------------------------------------------
\* The error codes the specification lists for a failed probe.
ListedErrors ==
    {"NOT_FEDERATED", "CREDENTIAL_REQUIRED", "TIMEOUT", "CONNECTION_FAILED"}
        \cup {"API_ERROR: " \o ToString(res.status) : res \in ShowInstanceResponses}

\* The log entries of the pair an edge connects.
LogOf(edge) ==
    {k \in 1..Len(probeLog) :
        probeLog[k].source = edge.source /\ probeLog[k].target = edge.target}

\* C13: the errors stored on a connectivity edge are exactly the errors the
\* two directional probes of its pair produced, and the error of a direction
\* that is not reachable is one of NOT_FEDERATED, CREDENTIAL_REQUIRED,
\* TIMEOUT, CONNECTION_FAILED or API_ERROR with the status.
C13_ProbeErrorsVerbatim ==
    \A i \in 1..Len(cy.connectivityEdges) :
        LET e == cy.connectivityEdges[i]
        IN \A k \in LogOf(e) :
              /\ e.forwardError = probeLog[k].answer.forward.error
              /\ e.backwardError = probeLog[k].answer.backward.error
              /\ ~e.forwardOk => e.forwardError \in ListedErrors
              /\ ~e.backwardOk => e.backwardError \in ListedErrors

\* Why a probe with the given response of the source is not reachable
\* ("none": it is reachable).
ProbeCause(res) ==
    IF res.delay >= ProbeTimeoutMs THEN "timeout"
    ELSE IF res.kind = "failed" THEN "connection"
    ELSE IF res.status < 200 \/ res.status > 299
    THEN IF res.code = "NO_SUCH_OBJECT" THEN "unknown"
         ELSE IF res.code = "CREDENTIAL_REQUIRED" THEN "auth"
         ELSE "status"
    ELSE IF ~res.bodyParses THEN "connection"
    ELSE IF res.isBlocked THEN "blocked"
    ELSE IF res.isSuspended THEN "suspended"
    ELSE "none"

FiveCauses == {"status", "unknown", "auth", "timeout", "connection"}

\* The directional probes the last batch ran: response of the source and
\* result of checkConnectivity.
LoggedProbes ==
    UNION {{[res |-> probeLog[k].exchange.forwardRes,
             result |-> probeLog[k].answer.forward],
            [res |-> probeLog[k].exchange.backwardRes,
             result |-> probeLog[k].answer.backward]} :
           k \in {n \in 1..Len(probeLog) : probeLog[n].answer.status = 200}}

\* C14: a directional probe is reachable exactly when the source answered
\* with a 2xx status and an instance object that is neither blocked nor
\* suspended; probes that failed for different ones of the five causes
\* (non-2xx status, target unknown, authentication required, timeout,
\* connection failure) carry different error codes, and a probe cancelled by
\* the timeout carries TIMEOUT.
C14_ProbeOutcome ==
    \A p \in LoggedProbes :
        /\ p.result.reachable <=> ProbeCause(p.res) = "none"
        /\ ProbeCause(p.res) = "timeout" => p.result.error = "TIMEOUT"
        /\ \A q \in LoggedProbes :
              (/\ ProbeCause(p.res) \in FiveCauses
               /\ ProbeCause(q.res) \in FiveCauses
               /\ ProbeCause(p.res) # ProbeCause(q.res))
                  => p.result.error # q.result.error

\* A pair whose forward probe was cancelled by the timeout and whose backward
\* probe was refused the connection.
C14_Witness ==
    \E k \in 1..Len(probeLog) :
        /\ probeLog[k].answer.status = 200
        /\ probeLog[k].exchange.forwardRes.delay >= ProbeTimeoutMs
        /\ probeLog[k].answer.forward = ProbeResult(FALSE, "TIMEOUT")
        /\ probeLog[k].exchange.backwardRes.kind = "failed"
        /\ probeLog[k].answer.backward = ProbeResult(FALSE, "CONNECTION_FAILED")

\* The reachable flag held for the direction x -> y (FALSE if none is held).
ReachableFlag(x, y) ==
    /\ MapHas(connectivityResults, ResultKey(x, y))
    /\ MapGet(connectivityResults, ResultKey(x, y)).reachable

\* C15: the relation of every connectivity edge is determined by the two
\* reachable flags of its pair: connectivity-ok iff both are true,
\* connectivity-partial iff exactly one is, connectivity-ng iff neither is.
C15_Classification ==
    \A i \in 1..Len(cy.connectivityEdges) :
        LET e == cy.connectivityEdges[i]
            f == ReachableFlag(e.source, e.target)
            b == ReachableFlag(e.target, e.source)
        IN /\ EdgeRelation(e) = "connectivity-ok" <=> (f /\ b)
           /\ EdgeRelation(e) = "connectivity-partial" <=> (f # b)
           /\ EdgeRelation(e) = "connectivity-ng" <=> (~f /\ ~b)
           /\ e.isMutualOk <=> (f /\ b)

\* A drawn pair with forward reachable and backward not: partial.
C15_Witness ==
    \E i \in 1..Len(cy.connectivityEdges) :
        LET e == cy.connectivityEdges[i]
        IN /\ ReachableFlag(e.source, e.target)
           /\ ~ReachableFlag(e.target, e.source)
           /\ EdgeRelation(e) = "connectivity-partial"
           /\ e.color = "#ffaa00"

\* ------------------------------------------------------------------------
\* Properties of the probe debounce
\* ------------------------------------------------------------------------
\* A step that changes the viewpoint set of the mounted component.
ViewpointSetChanges ==
    /\ phase = "mounted"
    /\ ViewpointHash(viewpointServers') # ViewpointHash(viewpointServers)

\* A step in which the probe debounce timer fires (the teardown cancels it
\* instead).
ProbeTimerFires ==
    /\ connectivityCheckTimeoutId /\ ~connectivityCheckTimeoutId'
    /\ phase' = phase

C17_TeardownCancelsTimers ==
    [][(phase = "mounted" /\ phase' = "destroyed")
          => /\ ~initGraphTimeoutId'
             /\ ~connectivityCheckTimeoutId'
             /\ retryTimers' = 0]_vars

\* ------------------------------------------------------------------------
\* Properties of the rebuild trigger
\* ------------------------------------------------------------------------
\* C18: once the changes of the snapshot have been processed (the component
\* is mounted with a live graph and no rebuild is scheduled or in progress),
\* the live model is the model built from the current catalog and
\* observations.
C18_RebuildOnSnapshotChange ==
    (phase = "mounted" /\ cy.live /\ Settled) =>
        LET elements == BuildElements(servers, federations, viewpointServers)
        IN /\ cy.nodes = elements.nodes
           /\ cy.edges = elements.edges
           /\ cy.blockedEdges = elements.blockedEdges

\* ------------------------------------------------------------------------
\* Properties of the viewpoint update
\* ------------------------------------------------------------------------
\* A step that changes the viewpoint set of the mounted component and leaves
\* the catalog and the observations handed to the graph as they are.
ViewpointSetAloneChanges ==
    /\ ViewpointSetChanges
    /\ servers' = servers
    /\ DisplayFederations(allFederations', viewpointServers') = federations

SelectionHighlights ==
    {<<"node", n>> : n \in highlighted.nodes}
    \cup {<<"edge", e>> :
            e \in {x \in highlighted.edges :
                     \A n \in highlighted.nodes :
                        x \notin ConnectedEdgeIds(cy, n)}}

\* C20: a tap on node n while nothing, another node or an edge is selected
\* (a selection restored from the deep link included) clears the highlight
\* of the previous selection, selects n and emits one "selected" event for
\* n; at every moment at most one node or edge wears the selection
\* highlight.
C20_TapNodeSingleHighlight ==
    cy.live =>
      /\ Cardinality(SelectionHighlights) <= 1
      /\ (tapLog # <<>> /\ tapLog[Len(tapLog)].target # NoHost
          /\ tapLog[Len(tapLog)].before # tapLog[Len(tapLog)].target)
         => LET tap == tapLog[Len(tapLog)]
            IN /\ selectedNode = tap.target
               /\ tap.after = tap.target
               /\ SelectionHighlights = {<<"node", tap.target>>}
               /\ Len(SelectedEvents(tap.events, tap.target)) = 1

\* The edge of the live instance that tap names.
TappedEdge(tap) == CHOOSE e \in EdgesOf(cy) : e.id = tap.edge

\* selectedNode and selectedItem right after the k-th tap.
NodeAfterTap(k) == IF k < Len(tapLog) THEN tapLog[k + 1].before ELSE selectedNode

ItemAfterTap(k) ==
    IF k < Len(tapLog) THEN tapLog[k + 1].itemBefore ELSE selectedItem

\* C21: a tap on edge e, whatever was selected, leaves no node selected,
\* makes e (its pair of hosts) the selection and emits the "edge selected"
\* event for e's two hosts; a second tap on e does the same again: the
\* selection stays on e and no "activate" or "cleared" event is emitted.
C21_TapEdge ==
    cy.live =>
      \A k \in 1..Len(tapLog) :
        tapLog[k].edge # NoHost =>
          LET e == TappedEdge(tapLog[k])
          IN /\ NodeAfterTap(k) = NoHost
             /\ ItemAfterTap(k).type = "edge"
             /\ SplitDots(ItemAfterTap(k).value) \in
                  {<<e.source, e.target>>, <<e.target, e.source>>}
             /\ tapLog[k].events = <<Emit("onSelectEdge", e.source),
                                     Emit("onSelectEdge", e.target)>>
             /\ (k = Len(tapLog) => highlighted.nodes = {})

\* An edge was tapped twice in a row, a node being selected before.
C21_Witness ==
    /\ cy.live
    /\ Len(tapLog) >= 3
    /\ tapLog[1].target # NoHost
    /\ tapLog[2].edge # NoHost
    /\ tapLog[2].before = tapLog[1].target
    /\ tapLog[3].edge = tapLog[2].edge
    /\ selectedItem.type = "edge"

\* Is the k-th tap a tap on the background?
IsBackgroundTap(k) == tapLog[k].target = NoHost /\ tapLog[k].edge = NoHost

\* C22: a tap on the background, whether nothing, a node or an edge was
\* selected, leaves nothing selected (no selected node, no selected item,
\* no highlighted node) and emits the "cleared" event.
C22_TapBackground ==
    cy.live =>
      \A k \in 1..Len(tapLog) :
        IsBackgroundTap(k) =>
          /\ NodeAfterTap(k) = NoHost
          /\ ItemAfterTap(k) = NoItem
          /\ tapLog[k].events = <<Emit("onClearSelection", NoHost)>>
          /\ (k = Len(tapLog) => highlighted.nodes = {})

\* The background was tapped with a node selected and with an edge selected.
C22_Witness ==
    /\ cy.live
    /\ Len(tapLog) = 4
    /\ tapLog[1].target # NoHost
    /\ IsBackgroundTap(2)
    /\ tapLog[2].before = tapLog[1].target
    /\ tapLog[3].edge # NoHost
    /\ IsBackgroundTap(4)
    /\ tapLog[4].itemBefore.type = "edge"
    /\ selectedItem = NoItem

\* The expiry timers of the focus highlight that are pending.
ExpiryTimers == {t \in timers : t.kind = "highlight"}

\* C23: a focus on host h2 applied before the highlight of h1 expired
\* replaces the expiry timer and h1's highlight: at most one expiry timer is
\* pending, at most one node of the live graph wears the focus highlight,
\* it is the node focused last, and its highlight expires 3 s after that
\* focus.
C23_FocusReplaces ==
    /\ Cardinality(ExpiryTimers) <= 1
    /\ cy.live =>
         /\ Cardinality(focusHighlighted) <= 1
         /\ \A t \in ExpiryTimers :
               ~t.stale => focusHighlighted = NodeIds(cy) \cap {t.host}
         /\ focusHighlighted # {} =>
               /\ focusHighlighted = {focusLog.appliedHost}
               /\ now <= focusLog.appliedAt + FocusHighlightMs
               /\ \E t \in ExpiryTimers :
                     /\ t.host = focusLog.appliedHost /\ ~t.stale
                     /\ t.due = focusLog.appliedAt + FocusHighlightMs

\* Two hosts were focused on the same instance, the second before the
\* highlight of the first expired, and the second is the one highlighted.
C23_Witness ==
    /\ cy.live
    /\ vpEdits = 0
    /\ focusLog.requests = 2
    /\ timerSeq = 4
    /\ focusHighlightTimeout = 4
    /\ focusLog.appliedAt < FocusHighlightMs
    /\ focusHighlighted = {focusLog.appliedHost}
    /\ focusLog.appliedHost = focusLog.requestHost

\* C24: a focus request for the host that is already highlighted restarts
\* the expiry: once the request has been handled (no delay timer pending),
\* the highlight of that host expires no earlier than 3 s after the request,
\* and only one expiry timer is pending.
C24_RefocusRestarts ==
    /\ Cardinality(ExpiryTimers) <= 1
    /\ (/\ cy.live
        /\ focusHighlighted = {focusLog.requestHost}
        /\ \A t \in timers : t.kind # "focus")
       => \A t \in ExpiryTimers :
             t.due >= focusLog.requestAt + FocusHighlightMs

\* C25: after a release inertia ends with the velocity set to zero, and
\* whenever no drag and no inertia animation is in progress the stored
\* velocity is zero.
C25_IdleVelocityZero ==
    (~isPanning /\ inertiaFrames = 0) => panVelocity = ZeroVelocity

\* C26: a drag start (mouse down, touch start or grab) sets the velocity to
\* zero and leaves no inertia frame pending, and no inertia step is applied
\* between a drag start and its release.
C26_DragStartStopsInertia ==
    /\ [][panLog'.drags # panLog.drags
            => panVelocity' = ZeroVelocity /\ inertiaFrames' = 0]_vars
    /\ [](panLog.steps > 0 => panLog.released)

C26_Witness ==
    /\ panLog.interrupted
    /\ ~panLog.released
    /\ panVelocity # ZeroVelocity

\* C27: the step that writes the connectivity edges into the graph leaves
\* every node, activity edge and block edge of the instance as it was, also
\* when an activity or block edge joins the same pair of hosts.
C27_ConnectivityAdditive ==
    [][Len(probes') < Len(probes)
         => /\ cy'.nodes = cy.nodes
            /\ cy'.edges = cy.edges
            /\ cy'.blockedEdges = cy.blockedEdges
            /\ cy'.live = cy.live]_vars

SamePair(e, f) == {e.source, e.target} = {f.source, f.target}

C27_Witness ==
    /\ lastProbe.done
    /\ \E i \in 1..Len(cy.connectivityEdges) :
         \E j \in 1..Len(cy.edges) :
           SamePair(cy.connectivityEdges[i], cy.edges[j])
    /\ \E i \in 1..Len(cy.connectivityEdges) :
         \E j \in 1..Len(cy.blockedEdges) :
           SamePair(cy.connectivityEdges[i], cy.blockedEdges[j])

\* The requests of the last completed batch that probe hosts a and b against
\* each other, in either order.
RequestsBetween(a, b) ==
    {k \in 1..Len(probeLog) :
        {probeLog[k].source, probeLog[k].target} = {a, b}}

\* C28: a probe batch issues exactly one request for each unordered pair of
\* distinct hosts of the viewpoint set it started with, no request of a host
\* against itself, and no batch starts for fewer than two hosts.
C28_OneProbePerPair ==
    /\ \A i \in 1..Len(probes) : Cardinality(Range(probes[i].viewpoints)) >= 2
    /\ lastProbe.done =>
         /\ \A k \in 1..Len(probeLog) :
              /\ probeLog[k].source # probeLog[k].target
              /\ probeLog[k].source \in Range(lastProbe.viewpoints)
              /\ probeLog[k].target \in Range(lastProbe.viewpoints)
         /\ \A a, b \in Range(lastProbe.viewpoints) :
              a # b => Cardinality(RequestsBetween(a, b)) = 1

\* The raw activity retained for activity edge e: the highest one among the
\* allowed normal observations stored under the edge's key.
EdgeActivity(e) ==
    SetMax({Activity(AllowedNormal[i]) : i \in
              {k \in 1..Len(AllowedNormal) :
                  LET pair == SortedPair(AllowedNormal[k].sourceHost,
                                         AllowedNormal[k].targetHost)
                  IN ActivityKey(pair[1], pair[2]) = e.id}})

EdgeActivities == {EdgeActivity(cy.edges[i]) : i \in 1..Len(cy.edges)}

\* C29 as stated: in a built graph whose activity edges carry at least two
\* different raw activities, the edge with the smallest one has weight 1 and
\* the edge with the largest one has weight 30.
C29_MinMaxWeights ==
    (cy.live /\ Cardinality(EdgeActivities) >= 2) =>
        \A i \in 1..Len(cy.edges) :
            LET e == cy.edges[i]
            IN /\ EdgeActivity(e) = SetMin(EdgeActivities) => e.weight = 100
               /\ EdgeActivity(e) = SetMax(EdgeActivities) => e.weight = 3000

\* C29 as amended: in such a graph the edge of retained raw activity a has weight
\* 1 + 29 * sqrt(a / max(top, 1)) (rounded down to hundredths), top being the
\* largest raw activity: weight 30 for the largest when top is at least 1,
\* and weight 1 exactly for the edges of activity 0.
C29_WeightsAgainstZeroAndOne ==
    (cy.live /\ Cardinality(EdgeActivities) >= 2) =>
        \A i \in 1..Len(cy.edges) :
            LET a == EdgeActivity(cy.edges[i])
                w == cy.edges[i].weight - 100
                range == IF TopActivity >= 10 THEN TopActivity ELSE 10
            IN /\ w >= 0
               /\ range * w * w <= 2900 * 2900 * a
               /\ range * (w + 1) * (w + 1) > 2900 * 2900 * a
               /\ (a = TopActivity /\ TopActivity >= 10) => w = 2900
               /\ (w = 0) <=> (a = 0)

\* A built graph with two activity edges of raw activity 0.5 and 2: the
\* smaller one is drawn heavier than 1, the larger one with 30.
C29_Witness ==
    /\ cy.live
    /\ EdgeActivities = {5, 20}
    /\ \E i, j \in 1..Len(cy.edges) :
         /\ EdgeActivity(cy.edges[i]) = 5
         /\ cy.edges[i].weight > 100 /\ cy.edges[i].weight < 3000
         /\ EdgeActivity(cy.edges[j]) = 20
         /\ cy.edges[j].weight = 3000

\* The hosts that are the source or the target of an edge of edges.
Endpoints(edges) ==
    {edges[i].source : i \in 1..Len(edges)}
    \cup {edges[i].target : i \in 1..Len(edges)}

\* C30: the nodes of a built graph are exactly the endpoints of its activity
\* edges, the endpoints of its block relations and the viewpoint hosts that
\* the catalog lists.
C30_NodeSet ==
    cy.live =>
        NodeIds(cy) = Endpoints(cy.edges) \cup Endpoints(cy.blockedEdges)
                      \cup (Range(viewpointServers) \cap ServerHosts(servers))

\* The size of a host sized like a server with one user, whether the
\* catalog lists it or not.
NodeSizeUnknownAsOneUser(host, srv, hosts) ==
    LET users == IF host \in ServerHosts(srv)
                 THEN UsersOf(srv[CHOOSE i \in 1..Len(srv) : srv[i].host = host])
                 ELSE 1
        logMinUsers == Log10(SetMin(AllUserCounts(srv, hosts) \cup {1}) + 1)
    IN 1200 + (5800 * (Log10(users + 1) - logMinUsers))
              \div LogUserRange(srv, hosts)

\* C31: every node of a built graph has a size between 12 and 70, and the
\* node of a host the catalog does not list has the size of a listed host
\* with one user.
C31_NodeSizes ==
    cy.live =>
        \A i \in 1..Len(cy.nodes) :
            /\ cy.nodes[i].size >= 1200
            /\ cy.nodes[i].size <= 7000
            /\ cy.nodes[i].size =
                   NodeSizeUnknownAsOneUser(cy.nodes[i].id, servers,
                                            [k \in 1..Len(cy.nodes) |->
                                                cy.nodes[k].id])

\* C32: in a live graph every viewpoint node of a host the catalog lists is
\* displayed, whatever the edge-visibility flags and whether or not the
\* node has an edge left displayed.
C32_ViewpointsDisplayed ==
    cy.live =>
        \A i \in 1..Len(cy.nodes) :
            (cy.nodes[i].isViewpoint /\ cy.nodes[i].id \in ServerHosts(servers))
                => Hidden("node", cy.nodes[i].id) \notin cy.hidden

\* Did the request of logged pair k fail: thrown, or answered with a status
\* other than 2xx?
RequestFailed(k) ==
    \/ probeLog[k].exchange.transport \in {"rejected", "platformError"}
    \/ probeLog[k].answer.status # 200

\* Are both directions of logged pair k recorded as given?
Recorded(k, forward, backward) ==
    LET fk == ResultKey(probeLog[k].source, probeLog[k].target)
        bk == ResultKey(probeLog[k].target, probeLog[k].source)
    IN /\ MapHas(connectivityResults, fk)
       /\ MapHas(connectivityResults, bk)
       /\ MapGet(connectivityResults, fk) = forward
       /\ MapGet(connectivityResults, bk) = backward

\* C33: when a batch has completed, every pair whose request failed is
\* recorded unreachable in both directions with an error, and every other
\* pair is recorded with the two results its request returned.
C33_FailureContained ==
    lastProbe.done =>
        \A k \in 1..Len(probeLog) :
            IF RequestFailed(k)
            THEN \E error \in {"API_ERROR", "FETCH_FAILED"} :
                     Recorded(k, ProbeResult(FALSE, error),
                              ProbeResult(FALSE, error))
            ELSE Recorded(k, probeLog[k].answer.forward,
                          probeLog[k].answer.backward)

\* C34: a mouseover or mouseout on the selected node leaves the highlight
\* as it is, and no hover event on a node or an edge changes selectedNode or
\* selectedItem or is followed by a selection event.
C34_HoverKeepsSelection ==
    [][HoverEvent =>
          /\ selectedNode' = selectedNode
          /\ selectedItem' = selectedItem
          /\ tapLog' = tapLog
          /\ (\/ selectedNode # NoHost /\ MouseOverNode(selectedNode)
              \/ selectedNode # NoHost /\ MouseOutNode(selectedNode))
             => highlighted' = highlighted]_vars

\* The pointer has left the selected node, which is still highlighted with
\* its edges.
C34_Witness ==
    /\ selectedNode # NoHost
    /\ selectedNode \in highlighted.nodes
    /\ ConnectedEdgeIds(cy, selectedNode) # {}
    /\ ConnectedEdgeIds(cy, selectedNode) \subseteq highlighted.edges
    /\ tooltip = HideTooltip(Tooltip("node", selectedNode))

\* What the selected node wears of the highlight: its own style and the
\* style of its edges.
SelectionHighlight(hl) ==
    [node |-> selectedNode \in hl.nodes,
     edges |-> hl.edges \cap ConnectedEdgeIds(cy, selectedNode)]

\* C35: a focus request, the focus delay timer and the expiry of the focus
\* highlight change neither selectedNode nor selectedItem nor what the
\* selected node wears of the selection highlight, and a tap on a node, an
\* edge or the background leaves the focus timers as they are.
C35_FocusApartFromSelection ==
    [][/\ FocusStep =>
             /\ selectedNode' = selectedNode
             /\ selectedItem' = selectedItem
             /\ SelectionHighlight(highlighted') = SelectionHighlight(highlighted)
       /\ TapStep =>
             /\ timers' = timers
             /\ focusTimeoutId' = focusTimeoutId
             /\ focusHighlightTimeout' = focusHighlightTimeout]_vars

\* C36: in a built graph a block relation between two distinct hosts that is
\* not mutual runs from the host whose observation reported the block or
\* suspension to the host it blocks, and no observation runs the other way;
\* a relation observed in both directions is mutual.
C36_BlockDirection ==
    cy.live =>
        \A n \in 1..Len(cy.blockedEdges) :
            LET e == cy.blockedEdges[n]
                along == BlockedFromTo(AllowedBlocked, e.source, e.target)
                against == BlockedFromTo(AllowedBlocked, e.target, e.source)
            IN e.source # e.target =>
                 /\ ~e.isMutual => along # {} /\ against = {}
                 /\ (along # {} /\ against # {}) => e.isMutual

\* A built graph with a one-way relation reported by the host that sorts
\* after the host it blocks.
C36_Witness ==
    /\ cy.live
    /\ \E n \in 1..Len(cy.blockedEdges) :
         LET e == cy.blockedEdges[n]
         IN /\ ~e.isMutual
            /\ StrLt(e.target, e.source)
            /\ BlockedFromTo(AllowedBlocked, e.source, e.target) # {}

\* Do all edges of instance c have their source and target among its nodes?
EndpointsAreNodes(c) ==
    \A e \in EdgesOf(c) : e.source \in NodeIds(c) /\ e.target \in NodeIds(c)

\* C37: every activity, block and connectivity edge of the live model has
\* its source and its target among the nodes of the model, and a step that
\* adds connectivity edges adds them between viewpoints that are nodes.
C37_EndpointsAreNodes ==
    /\ [](cy.live => EndpointsAreNodes(cy))
    /\ [][cy'.connectivityEdges # cy.connectivityEdges =>
            \A i \in 1..Len(cy'.connectivityEdges) :
               {cy'.connectivityEdges[i].source,
                cy'.connectivityEdges[i].target}
                   \subseteq Range(viewpointServers') \cap NodeIds(cy')]_vars

\* A live model with an activity edge, a block edge and a connectivity
\* edge.
C37_Witness ==
    /\ cy.live
    /\ Len(cy.edges) > 0
    /\ Len(cy.blockedEdges) > 0
    /\ Len(cy.connectivityEdges) > 0

\* Nothing is pending: no rebuild, no fetch, no probe timer and no batch in
\* flight.
ProbesSettled ==
    /\ phase = "mounted"
    /\ cy.live
    /\ Settled
    /\ ~connectivityCheckTimeoutId
    /\ probes = <<>>

\* The unordered pairs of the viewpoint list vps.
UnorderedPairs(vps) ==
    {HostPair(vps[i], vps[j]) : i \in 1..Len(vps), j \in 1..Len(vps)} \
        {{vps[i]} : i \in 1..Len(vps)}

\* The positions of the connectivity edges between the hosts of pair.
ConnectivityEdgesBetween(pair) ==
    {i \in 1..Len(cy.connectivityEdges) :
        HostPair(cy.connectivityEdges[i].source,
                 cy.connectivityEdges[i].target) = pair}

\* C38: when nothing is pending, the live model has exactly one connectivity
\* edge for every unordered pair of the current viewpoints and none for any
\* other pair, and the results shown are those of a batch started for the
\* current viewpoints.
C38_ConnectivityEdgesSettle ==
    ProbesSettled =>
        /\ \A i \in 1..Len(cy.connectivityEdges) :
              HostPair(cy.connectivityEdges[i].source,
                       cy.connectivityEdges[i].target)
                  \in UnorderedPairs(viewpointServers)
        /\ \A pair \in UnorderedPairs(viewpointServers) :
              Cardinality(ConnectivityEdgesBetween(pair)) = 1
        /\ Len(viewpointServers) >= 2 => lastProbe.done /\ ~lastProbe.stale

\* The ids of the nodes and edges of instance c, in the order of its
\* collection.
ElementIds(c) == [i \in 1..Len(Elements(c)) |-> Elements(c)[i].data.id]

\* C39: in a live model no two elements (nodes, activity edges, block
\* relations, connectivity edges) have the same id.
C39_IdsDistinct ==
    cy.live =>
        \A i, j \in 1..Len(ElementIds(cy)) :
            ElementIds(cy)[i] = ElementIds(cy)[j] => i = j

\* C40: isLayoutRunning is true only while a call of initGraph is suspended
\* at its await and will reset it: the flag does not outlive the build that
\* set it.
C40_FlagNotHeld == isLayoutRunning => initGraphAwaiting > 0

====
